---- MODULE Spec2Model ----
(***************************************************************************)
(* Model of the pve-sdk-rs client core: the authentication negotiator      *)
(* (core/auth.rs), the request path PveClient::send / transport::execute   *)
(* and the task poller PveClient::wait_for_task.                           *)
(*                                                                         *)
(* Strings whose characters matter (tokens, tickets, header values) are    *)
(* sequences of one-character strings; strings that the code only compares *)
(* as a whole (status, exitstatus, upid, method names) are TLA+ strings.   *)
(* Option<T> is a sequence of length at most one: None is <<>> and Some(x) *)
(* is <<x>>.  Time is an integer count of clock ticks, TicksPerSec ticks   *)
(* to the second.                                                          *)
(***************************************************************************)
EXTENDS Integers, Sequences, FiniteSets, TLC

\* ------------------------------------------------------------------ bounds
\* clock resolution of the model: ticks per second
TicksPerSec == 2
\* latest clock value at which a wait_for_task call may start
MaxStart == 1
\* largest deadline, in ticks, a caller supplies
MaxTimeout == 2
\* largest poll interval, in ticks, a caller supplies
MaxInterval == 1
\* the clock runs far enough for every supplied deadline to be exceeded
\* writes the caller makes to one PveParams
MaxOps == 3
MaxNow == MaxStart + MaxTimeout + MaxInterval + 1

\* ----------------------------------------------------------------- Option
None == <<>>
Some(x) == <<x>>
IsSome(o) == o # None
Unwrap(o) == o[1]
\* Option::unwrap_or_else
UnwrapOr(o, d) == IF o = None THEN d ELSE o[1]
OptionOf(S) == {None} \cup {Some(x) : x \in S}

\* ---------------------------------------------------------------- strings
\* a control character (line feed), not allowed in an HTTP header value
LF == "\n"
CtlChars == {LF}
StrPVEAPIToken == <<"P","V","E","A","P","I","T","o","k","e","n","=">>
StrPVEAuthCookie == <<"P","V","E","A","u","t","h","C","o","o","k","i","e","=">>
\* root@pam!ci=s
GoodToken == <<"u","@","r","!","t","=","s">>
\* a token of the accepted shape whose secret holds a control character
CtlToken == <<"u","@","r","!","t","=",LF>>
Tokens == {GoodToken, CtlToken}
Tickets == {<<"P","V","E",":","x">>}
Csrfs == {<<"c","s","r","f">>}

\* ------------------------------------------------------- string functions
\* char::is_whitespace, on the characters the model uses
WhiteSpace == {" ", LF}
RECURSIVE TrimStart(_)
\* str::trim_start
TrimStart(s) ==
    IF s # <<>> /\ Head(s) \in WhiteSpace THEN TrimStart(Tail(s)) ELSE s
RECURSIVE TrimEnd(_)
\* str::trim_end
TrimEnd(s) ==
    IF s # <<>> /\ s[Len(s)] \in WhiteSpace THEN TrimEnd(SubSeq(s, 1, Len(s) - 1)) ELSE s
\* str::trim
Trim(s) == TrimEnd(TrimStart(s))
\* str::contains(char)
Contains(s, ch) == \E i \in 1..Len(s) : s[i] = ch
\* str::matches(char).count()
Count(s, ch) == Cardinality({i \in 1..Len(s) : s[i] = ch})
\* str::starts_with(&str)
StartsWith(s, prefix) ==
    Len(s) >= Len(prefix) /\ SubSeq(s, 1, Len(prefix)) = prefix
\* str::rfind(char): the last index, 0 when there is none
RFind(s, ch) ==
    IF Contains(s, ch) THEN CHOOSE i \in 1..Len(s) : s[i] = ch /\ \A j \in (i + 1)..Len(s) : s[j] # ch
    ELSE 0
\* str::split_once(char)
SplitOnce(s, ch) ==
    IF ~Contains(s, ch) THEN None
    ELSE LET i == CHOOSE k \in 1..Len(s) : s[k] = ch /\ \A j \in 1..(k - 1) : s[j] # ch
         IN  Some(<<SubSeq(s, 1, i - 1), SubSeq(s, i + 1, Len(s))>>)
RECURSIVE TrimEndMatches(_, _)
\* str::trim_end_matches(char)
TrimEndMatches(s, ch) ==
    IF s # <<>> /\ s[Len(s)] = ch THEN TrimEndMatches(SubSeq(s, 1, Len(s) - 1), ch) ELSE s

\* ------------------------------------------------------------------- Auth
\* enum Auth { None, ApiToken(String), Ticket { ticket, csrf: Option } }
AuthNone == [kind |-> "None"]
AuthApiToken(t) == [kind |-> "ApiToken", token |-> t]
AuthTicket(t, c) == [kind |-> "Ticket", ticket |-> t, csrf |-> c]
AuthValues ==
    {AuthNone} \cup {AuthApiToken(t) : t \in Tokens}
    \cup {AuthTicket(t, c) : t \in Tickets, c \in OptionOf(Csrfs)}

\* reqwest::Method values the callers use
Methods == {"GET", "HEAD", "POST", "PUT", "DELETE", "PATCH"}

\* ----------------------------------------------------------------- errors
\* enum PveError
ErrInvalidArgument(msg) == [kind |-> "InvalidArgument", msg |-> msg]
ErrHttp == [kind |-> "Http"]
ErrDecode == [kind |-> "Decode"]
ErrApiStatus(s, b) == [kind |-> "ApiStatus", status |-> s, body |-> b]
ErrMissingCsrfToken == [kind |-> "MissingCsrfToken"]
ErrTaskFailed(u, e) == [kind |-> "TaskFailed", upid |-> u, exitstatus |-> e]
ErrTaskTimeout(u, s) == [kind |-> "TaskTimeout", upid |-> u, timeout_secs |-> s]
Ok(v) == [kind |-> "Ok", value |-> v]
Pending == [kind |-> "Pending"]
IsErr(r) == r.kind \notin {"Ok", "Pending"}

\* ------------------------------------------------- authentication headers
\* reqwest::RequestBuilder: the part of a request the claims are about
NewRequest(method, path) == [method |-> method, path |-> path, headers |-> {}]
\* RequestBuilder::header(name, value)
Header(request, name, value) ==
    [request EXCEPT !.headers = @ \cup {<<name, value>>}]
\* HeaderValue::from_str accepts a string without control characters
HeaderValueFromStr(s) ==
    IF \E i \in 1..Len(s) : s[i] \in CtlChars THEN None ELSE Some(s)
\* IsWrite with PATCH forgotten
IsWriteNoPatch(method) == method \in {"POST", "PUT", "DELETE"}
\* matches!(*method, POST | PUT | DELETE | PATCH)
IsWrite(method) == method \in {"POST", "PUT", "DELETE", "PATCH"}

\* format!("PVEAPIToken={token}")
TokenHeaderValue(token) == StrPVEAPIToken \o token
\* format!("PVEAuthCookie={ticket}")
CookieHeaderValue(ticket) == StrPVEAuthCookie \o ticket

\* apply_auth attaching the CSRF header whenever a token is present
ApplyAuthCsrfAlways(a, request, method) ==
    CASE a.kind = "None" -> Ok(request)
      [] a.kind = "ApiToken" ->
            LET value == HeaderValueFromStr(TokenHeaderValue(a.token))
            IN  IF value = None
                THEN ErrInvalidArgument("invalid api token header value")
                ELSE Ok(Header(request, "authorization", Unwrap(value)))
      [] a.kind = "Ticket" ->
            LET request1 == Header(request, "cookie", CookieHeaderValue(a.ticket))
            IN  IF a.csrf # None
                THEN Ok(Header(request1, "CSRFPreventionToken", Unwrap(a.csrf)))
                ELSE IF IsWrite(method) THEN ErrMissingCsrfToken ELSE Ok(request1)

\* apply_auth sending the ticket cookie along with the API token
ApplyAuthTokenWithCookie(a, request, method) ==
    CASE a.kind = "None" -> Ok(request)
      [] a.kind = "ApiToken" ->
            LET value == HeaderValueFromStr(TokenHeaderValue(a.token))
            IN  IF value = None
                THEN ErrInvalidArgument("invalid api token header value")
                ELSE Ok(Header(Header(request, "cookie", CookieHeaderValue(a.token)),
                               "authorization", Unwrap(value)))
      [] a.kind = "Ticket" ->
            LET request1 == Header(request, "cookie", CookieHeaderValue(a.ticket))
            IN  IF IsWrite(method)
                THEN IF a.csrf = None
                     THEN ErrMissingCsrfToken
                     ELSE Ok(Header(request1, "CSRFPreventionToken", Unwrap(a.csrf)))
                ELSE Ok(request1)

\* core::auth::apply_auth
ApplyAuth(a, request, method) ==
    CASE a.kind = "None" -> Ok(request)
      [] a.kind = "ApiToken" ->
            LET value == HeaderValueFromStr(TokenHeaderValue(a.token))
            IN  IF value = None
                THEN ErrInvalidArgument("invalid api token header value")
                ELSE Ok(Header(request, "authorization", Unwrap(value)))
      [] a.kind = "Ticket" ->
            LET request1 == Header(request, "cookie", CookieHeaderValue(a.ticket))
            IN  IF IsWrite(method)
                THEN IF a.csrf = None
                     THEN ErrMissingCsrfToken
                     ELSE Ok(Header(request1, "CSRFPreventionToken", Unwrap(a.csrf)))
                ELSE Ok(request1)

\* -------------------------------------------------------------- transport
\* what the network gives back for one request: a transport failure, or an
\* HTTP status with a body text
RespError == [kind |-> "error"]
RespHttp(s, b) == [kind |-> "http", status |-> s, body |-> b]
\* the status line arrived and reading the body failed
RespTruncated(s) == [kind |-> "truncated", status |-> s]
\* a body is text that is not JSON, or the text of a JSON object
BodyGarbage == [json |-> FALSE]
BodyJson(v) == [json |-> TRUE, value |-> v]
\* is_success taking a redirect for a success
IsSuccessBelow400(s) == s >= 200 /\ s <= 399
\* StatusCode::is_success
IsSuccess(s) == s >= 200 /\ s <= 299

\* serde: TaskStatus from a JSON object; status is required, Option fields
\* default to None
DecodeTaskStatus(d) ==
    IF "status" \in DOMAIN d
    THEN Ok([status |-> d.status,
             exitstatus |-> IF "exitstatus" \in DOMAIN d THEN Some(d.exitstatus) ELSE None,
             upid |-> IF "upid" \in DOMAIN d THEN Some(d.upid) ELSE None])
    ELSE ErrDecode
\* serde: serde_json::Value takes any JSON value
DecodeValue(d) == Ok(d)
\* serde: TicketInfo needs username, ticket and CSRFPreventionToken
DecodeTicketInfo(d) ==
    IF {"username", "ticket", "CSRFPreventionToken"} \subseteq DOMAIN d
    THEN Ok([username |-> d.username, ticket |-> d.ticket,
             csrf_prevention_token |-> d.CSRFPreventionToken,
             clustername |-> IF "clustername" \in DOMAIN d THEN Some(d.clustername) ELSE None])
    ELSE ErrDecode
\* serde: String takes a JSON string, which the model writes [str |-> s]
DecodeString(d) == IF DOMAIN d = {"str"} THEN Ok(d.str) ELSE ErrDecode
Decode(T, d) ==
    CASE T = "TaskStatus" -> DecodeTaskStatus(d)
      [] T = "TicketInfo" -> DecodeTicketInfo(d)
      [] T = "String" -> DecodeString(d)
      [] OTHER -> DecodeValue(d)

\* execute putting a default where the envelope has no data
ExecuteDefaulting(resp, T) ==
    IF resp.kind = "error" THEN ErrHttp
    ELSE IF resp.kind = "truncated" THEN ErrHttp
    ELSE IF ~IsSuccess(resp.status) THEN ErrApiStatus(resp.status, resp.body)
    ELSE IF ~resp.body.json THEN ErrDecode
    ELSE IF "data" \notin DOMAIN resp.body.value THEN Ok([null |-> TRUE])
    ELSE Decode(T, resp.body.value.data)

\* core::transport::execute::<T>: send().await?, text().await?, the status
\* check, then serde_json::from_str::<ApiEnvelope<T>>
Execute(resp, T) ==
    IF resp.kind = "error" THEN ErrHttp
    ELSE IF resp.kind = "truncated" THEN ErrHttp
    ELSE IF ~IsSuccess(resp.status) THEN ErrApiStatus(resp.status, resp.body)
    ELSE IF ~resp.body.json THEN ErrDecode
    ELSE IF "data" \notin DOMAIN resp.body.value THEN ErrDecode
    ELSE Decode(T, resp.body.value.data)

\* ----------------------------------------------------------- construction
\* the message of every validate_api_token_format failure
TokenFormatMsg == "PVE_API_TOKEN format invalid, expected <user>@<realm>!<tokenid>=<secret>"

\* validate_api_token_format: split at the first '!', the left part at its
\* first '@', the right part at its first '=', and no segment may be empty
ValidateApiTokenFormat(token) ==
    LET outer == SplitOnce(token, "!")
    IN  IF ~IsSome(outer) THEN ErrInvalidArgument(TokenFormatMsg)
        ELSE LET left == SplitOnce(Unwrap(outer)[1], "@")
                 right == SplitOnce(Unwrap(outer)[2], "=")
             IN  IF ~IsSome(left) THEN ErrInvalidArgument(TokenFormatMsg)
                 ELSE IF ~IsSome(right) THEN ErrInvalidArgument(TokenFormatMsg)
                 ELSE IF \/ Unwrap(left)[1] = <<>> \/ Unwrap(left)[2] = <<>>
                         \/ Unwrap(right)[1] = <<>> \/ Unwrap(right)[2] = <<>>
                      THEN ErrInvalidArgument(TokenFormatMsg)
                 ELSE Ok(TRUE)

\* format!("{user}@{realm}!{tokenid}={secret}")
FormatToken(user, realm, tokenid, secret) ==
    user \o <<"@">> \o realm \o <<"!">> \o tokenid \o <<"=">> \o secret

ErrInvalidBaseUrl(msg) == [kind |-> "InvalidBaseUrl", msg |-> msg]

StrHttp == <<"h", "t", "t", "p", ":", "/", "/">>
StrHttps == <<"h", "t", "t", "p", "s", ":", "/", "/">>
Digits == {"0", "1", "2", "3", "4", "5", "6", "7", "8", "9"}
Digits10 == <<"0", "1", "2", "3", "4", "5", "6", "7", "8", "9">>
\* the port a scheme implies, which Url::port() does not report
DefaultPort(scheme) == IF scheme = "https" THEN <<"4", "4", "3">> ELSE <<"8", "0">>
\* characters the url crate refuses in the host of an http(s) URL
ForbiddenHostChars ==
    {" ", "#", "/", ":", "?", "@", "[", "]", "<", ">", "\\", "^", "|", "%"}
\* the address literals the url crate accepts between brackets, as far as the
\* model uses them
Ipv6Literals ==
    {<<":", ":", "1">>, <<"2", "0", "0", "1", ":", "d", "b", "8", ":", ":", "1">>, <<"0", ":", "0", ":", "0", ":", "0", ":", "0", ":", "0", ":", "0", ":", "1">>}
\* the text the url crate writes for the address of a literal: the compressed
\* form
Ipv6Canonical(literal) ==
    IF literal = <<"0", ":", "0", ":", "0", ":", "0", ":", "0", ":", "0", ":", "0", ":", "1">> THEN <<":", ":", "1">> ELSE literal
\* ASCII lowercase, of the upper-case letters the model uses
UpperToLower == [T |-> "t", R |-> "r", U |-> "u", E |-> "e", H |-> "h"]
ToAsciiLowercase(s) ==
    [i \in 1..Len(s) |-> IF s[i] \in DOMAIN UpperToLower THEN UpperToLower[s[i]] ELSE s[i]]

\* the least index of s holding a character of chars, Len(s) + 1 when none
FirstOf(s, chars) ==
    IF \E i \in 1..Len(s) : s[i] \in chars
    THEN CHOOSE i \in 1..Len(s) : s[i] \in chars /\ \A j \in 1..(i - 1) : s[j] \notin chars
    ELSE Len(s) + 1

\* the host of an http(s) URL as Url::host_str() gives it back, None where
\* the url crate refuses it
ParseHost(h) ==
    IF h = <<>> THEN None
    ELSE IF Head(h) = "["
    THEN IF h[Len(h)] = "]" /\ SubSeq(h, 2, Len(h) - 1) \in Ipv6Literals
         THEN Some(<<"[">> \o Ipv6Canonical(SubSeq(h, 2, Len(h) - 1)) \o <<"]">>)
         ELSE None
    ELSE IF \E i \in 1..Len(h) : h[i] \in ForbiddenHostChars THEN None
    ELSE Some(ToAsciiLowercase(h))

\* the parts of the authority "userinfo@host:port" of an http(s) URL
Username(authority) ==
    LET userinfo == SubSeq(authority, 1, RFind(authority, "@") - 1)
    IN  SubSeq(userinfo, 1, FirstOf(userinfo, {":"}) - 1)
Password(authority) ==
    LET userinfo == SubSeq(authority, 1, RFind(authority, "@") - 1)
    IN  IF FirstOf(userinfo, {":"}) < Len(userinfo)
        THEN Some(SubSeq(userinfo, FirstOf(userinfo, {":"}) + 1, Len(userinfo)))
        ELSE None
HostPort(authority) == SubSeq(authority, RFind(authority, "@") + 1, Len(authority))
RawHost(hostport) ==
    IF RFind(hostport, ":") > RFind(hostport, "]")
    THEN SubSeq(hostport, 1, RFind(hostport, ":") - 1) ELSE hostport
RawPort(hostport) ==
    IF RFind(hostport, ":") > RFind(hostport, "]")
    THEN SubSeq(hostport, RFind(hostport, ":") + 1, Len(hostport)) ELSE <<>>
\* the parts of what follows the authority: "/path?query#fragment"
Fragment(tail) ==
    IF Contains(tail, "#") THEN Some(SubSeq(tail, FirstOf(tail, {"#"}) + 1, Len(tail)))
    ELSE None
PathOf(tail) ==
    IF FirstOf(tail, {"?", "#"}) = 1 THEN <<"/">>
    ELSE SubSeq(tail, 1, FirstOf(tail, {"?", "#"}) - 1)
Query(tail) ==
    LET pathQuery == SubSeq(tail, 1, FirstOf(tail, {"#"}) - 1)
    IN  IF Contains(pathQuery, "?")
        THEN Some(SubSeq(pathQuery, FirstOf(pathQuery, {"?"}) + 1, Len(pathQuery)))
        ELSE None

\* Url::parse, given the scheme, the authority and what follows it: None on
\* a parse error, else the parts the accessors of Url report; Url::port() is
\* None without a port and for the port the scheme implies
UrlOfParts(scheme, authority, tail) ==
    IF \/ ~IsSome(ParseHost(RawHost(HostPort(authority))))
       \/ \E i \in 1..Len(RawPort(HostPort(authority))) :
             RawPort(HostPort(authority))[i] \notin Digits
    THEN None
    ELSE Some([scheme |-> scheme,
               username |-> Username(authority),
               password |-> Password(authority),
               host |-> Unwrap(ParseHost(RawHost(HostPort(authority)))),
               port |-> IF RawPort(HostPort(authority)) \in {<<>>, DefaultPort(scheme)}
                        THEN None ELSE Some(RawPort(HostPort(authority))),
               path |-> PathOf(tail),
               query |-> Query(tail),
               fragment |-> Fragment(tail)])

\* Url::parse, given the scheme and what follows "scheme:" and its slashes
UrlOfRest(scheme, rest) ==
    UrlOfParts(scheme, SubSeq(rest, 1, FirstOf(rest, {"/", "?", "#"}) - 1),
               SubSeq(rest, FirstOf(rest, {"/", "?", "#"}), Len(rest)))

\* Url::parse of a string that starts with "http://" or "https://"
UrlParse(s) ==
    LET rest == IF StartsWith(s, StrHttps) THEN SubSeq(s, Len(StrHttps) + 1, Len(s))
                ELSE SubSeq(s, Len(StrHttp) + 1, Len(s))
    IN  UrlOfRest(IF StartsWith(s, StrHttps) THEN "https" ELSE "http",
                  SubSeq(rest, FirstOf(rest, {rest[i] : i \in 1..Len(rest)} \ {"/"}), Len(rest)))

\* the checks of build_base_url on a parsed scheme-prefixed host: the host it
\* stands for, or the error of the first check it fails
CheckedHost(parsed) ==
    IF ~IsSome(parsed)
    THEN ErrInvalidBaseUrl("invalid host URL, expected a hostname or IP without path/port")
    ELSE IF IsSome(Unwrap(parsed).port)
    THEN ErrInvalidBaseUrl("host must not include port, use ClientOption::port()")
    ELSE IF Unwrap(parsed).path # <<"/">>
    THEN ErrInvalidBaseUrl("host must not include path, use API methods with relative paths")
    ELSE IF IsSome(Unwrap(parsed).query) \/ IsSome(Unwrap(parsed).fragment)
    THEN ErrInvalidBaseUrl("host must not include query or fragment")
    ELSE IF Unwrap(parsed).username # <<>> \/ IsSome(Unwrap(parsed).password)
    THEN ErrInvalidBaseUrl("host must not include credentials")
    ELSE Ok(Unwrap(parsed).host)

\* Url::as_str of an http(s) URL without credentials, query and fragment
UrlAsStr(url) ==
    (IF url.scheme = "https" THEN StrHttps ELSE StrHttp) \o url.host
        \o (IF IsSome(url.port) THEN <<":">> \o Unwrap(url.port) ELSE <<>>) \o url.path

\* the host left as it is given
BracketedNever(host) == host

\* the brackets build_base_url puts around a bare IPv6 literal
Bracketed(host) ==
    IF Count(host, ":") > 1 /\ ~StartsWith(host, <<"[">>) /\ host[Len(host)] # "]"
    THEN <<"[">> \o host \o <<"]">> ELSE host

\* format!("{scheme}://{host}:{port}/")
FormatBase(https, host, port) ==
    (IF https THEN StrHttps ELSE StrHttp) \o host \o <<":">> \o port \o <<"/">>

\* the last step of build_base_url: Url::parse(&base)
ParseBase(base) ==
    IF IsSome(UrlParse(base)) THEN Ok(Unwrap(UrlParse(base))) ELSE ErrInvalidBaseUrl(base)

\* the checks of build_base_url on the bare host, then the brackets around an
\* IPv6 literal, the formatted base and Url::parse of it
CheckBareHost(host, port, https) ==
    IF Contains(host, "/")
    THEN ErrInvalidBaseUrl("host must not include path, use ClientOption::host(\"pve.example.com\")")
    ELSE IF Contains(host, "?") \/ Contains(host, "#")
    THEN ErrInvalidBaseUrl("host must not include query or fragment")
    ELSE IF Contains(host, "@")
    THEN ErrInvalidBaseUrl("host must not include credentials")
    ELSE IF \/ \E i \in 1..(Len(host) - 1) : host[i] = "]" /\ host[i + 1] = ":"
            \/ (Count(host, ":") = 1 /\ ~StartsWith(host, <<"[">>))
    THEN ErrInvalidBaseUrl("host must not include port, use ClientOption::port()")
    ELSE IF Bracketed(host) = <<>>
    THEN ErrInvalidBaseUrl("host is empty")
    ELSE ParseBase(FormatBase(https, Bracketed(host), port))

\* build_base_url from its second statement on: the checks of a prefixed
\* host, host.trim_end_matches('/'), the checks of the bare host
BuildTrimmed(host, port, https) ==
    IF StartsWith(host, StrHttps) \/ StartsWith(host, StrHttp)
    THEN IF IsErr(CheckedHost(UrlParse(host))) THEN CheckedHost(UrlParse(host))
         ELSE CheckBareHost(TrimEndMatches(CheckedHost(UrlParse(host)).value, "/"),
                            port, https)
    ELSE CheckBareHost(TrimEndMatches(host, "/"), port, https)

\* build_base_url
BuildBaseUrl(host, port, https) == BuildTrimmed(Trim(host), port, https)

\* ------------------------------------------------------ inputs of the model
\* job ids the callers wait for
Upids == {"UPID:a", "UPID:b"}
\* status strings the server reports; only "stopped" is terminal
StatusStrings == {"running", "stopped", "Stopped"}
ExitStrings == {"OK", "FAIL"}
\* JSON objects the status endpoint returns as data: each status alone, a
\* stopped job with an exit status, a running job that already shows one, a
\* stopped job with a upid of the server's own, and an object without status
TaskJson ==
    {[status |-> s] : s \in StatusStrings}
    \cup {[status |-> "stopped", exitstatus |-> e] : e \in ExitStrings}
    \cup {[status |-> "running", exitstatus |-> "OK"]}
    \cup {[status |-> "stopped", upid |-> "UPID:b"]}
    \cup {[status |-> "stopped", exitstatus |-> e, upid |-> "UPID:b"] : e \in ExitStrings}
    \cup {[exitstatus |-> "OK"]}
ErrorJson == [errors |-> "denied"]
StoppedOkJson == [data |-> [status |-> "stopped", exitstatus |-> "OK"]]
TaskResponses ==
    {RespError}
    \cup {RespHttp(200, BodyJson([data |-> d])) : d \in TaskJson}
    \cup {RespHttp(200, b) : b \in {BodyGarbage, BodyJson(ErrorJson)}}
    \cup {RespHttp(401, BodyGarbage), RespHttp(500, BodyJson(StoppedOkJson))}
Timeouts == OptionOf(0..MaxTimeout)
Intervals == 0..MaxInterval

\* a token without any separator, as in the unit test of from_option
BadToken == <<"b", "a", "d">>
\* ClientAuth, the credentials a ClientOption carries
ClientAuths ==
    {[kind |-> "None"], [kind |-> "Password", username |-> "root@pam", password |-> "pw"]}
    \cup {[kind |-> "ApiToken", token |-> t] : t \in Tokens \cup {BadToken}}
    \cup {[kind |-> "ApiTokenPartial", user |-> u, realm |-> <<"r">>,
           token_id |-> <<"t">>, secret |-> s] :
            u \in {<<"u">>, <<" ", "u">>, <<"a", "!">>}, s \in {<<"s">>, <<" ">>}}
    \cup {[kind |-> "Ticket", ticket |-> t, csrf |-> c] :
            t \in Tickets, c \in OptionOf(Csrfs)}
\* option.host: a name, a name in blanks, the ways of embedding more than a
\* host, an IPv6 literal, and scheme-prefixed forms
Hosts ==
    {<<"p", "v", "e">>, <<" ", "p", "v", "e", "/">>, <<>>,
     <<"h", ":", "1">>, <<"h", "/", "p">>, <<"h", "?", "q">>, <<"h", "#", "f">>,
     <<"u", "@", "h">>, <<":", ":", "1">>,
     StrHttps \o <<"h">>, StrHttp \o <<"h", ":", "8", "1">>,
     StrHttp \o <<"h", ":", "8", "0">>}
\* PveClient::DEFAULT_PORT, in decimal digits
DEFAULT_PORT == <<"8", "0", "0", "6">>
ClientOptions ==
    [host : Hosts, port : {DEFAULT_PORT}, https : {TRUE}, auth : ClientAuths]
\* replies to the ticket request of from_option
TicketResponses ==
    {RespError,
     RespHttp(200, BodyJson([data |-> [username |-> "root@pam",
                                       ticket |-> <<"P", "V", "E", ":", "x">>,
                                       CSRFPreventionToken |-> <<"c", "s", "r", "f">>]])),
     RespHttp(200, BodyJson([data |-> [username |-> "root@pam"]])),
     RespHttp(401, BodyGarbage)}

\* ------------------------------------------------------------------ state
\* call slots: concurrent callers of wait_for_task on the one client handle
AllCalls == {1, 2}

VARIABLES
    auth,       \* PveClient.auth
    now,        \* the clock (tokio::time::Instant::now), in ticks
    calls,      \* the call slots in use
    task,       \* per call slot: position and locals of wait_for_task
    lastResp,   \* per call slot: the network's reply to its latest status query
    wire,       \* requests sent and not yet answered
    op,         \* position and result of a single-request operation (raw_json)
    ctor,       \* position and result of PveClient::from_option
    pveParams,  \* a PveParams of the caller, and the writes made to it
    ret         \* a call of a function without effects: arguments and result

vars == <<auth, now, calls, task, lastResp, wire, op, ctor, pveParams, ret>>

\* Duration::as_secs: whole seconds, the fraction dropped
AsSecs(d) == d \div TicksPerSec
\* Instant::elapsed
Elapsed(started) == now - started

IdleTask ==
    [pc |-> "idle", upid |-> "", poll_interval |-> 0, timeout |-> None,
     started |-> 0, wake |-> 0, status |-> None, result |-> Pending,
     returned |-> 0]
\* a single-request operation: the method it was called with, its explicit
\* arguments and the caller's map where it takes them, the auth it read, the
\* request it put on the network (if any) and its result
IdleOp ==
    [pc |-> "idle", call |-> "", method |-> "", T |-> "Value", auth |-> AuthNone,
     args |-> <<>>, params |-> None, checked |-> Pending,
     request |-> None, resp |-> None, result |-> Pending, nsent |-> 0]
\* PveParams::new(), with no write made yet
NewParams == [map |-> <<>>, log |-> <<>>]
\* no function called yet
NoCall == [fn |-> "", args |-> <<>>, out |-> None]
\* the sender of a single-request operation, next to the call slots
OpId == 0
\* the sender of the ticket request of from_option
CtorId == 3
\* from_option not called yet
NewCtor ==
    [pc |-> "new", option |-> None, result |-> Pending, client_auth |-> None,
     request |-> None, resp |-> None, nsent |-> 0]
\* a client from_option returned, for a host and a port the model leaves open
BuiltCtor == [NewCtor EXCEPT !.pc = "built"]
\* "/access/ticket"
TicketPath == <<"access", "ticket">>
\* segments of the path a raw_json caller passes
RawPath == <<"version">>

\* segments of "/nodes/{node}/tasks/{upid}/status"
TaskStatusPath(upid) == <<"nodes", "node1", "tasks", upid, "status">>

\* TerminalResult taking any exit status that is present for success
TerminalResultAnyExit(upid, status) ==
    IF status.exitstatus # None
    THEN Ok(status)
    ELSE ErrTaskFailed(upid, UnwrapOr(status.exitstatus, "UNKNOWN"))

\* TerminalResult taking an absent exit status for "OK"
TerminalResultAbsentOk(upid, status) ==
    IF UnwrapOr(status.exitstatus, "OK") = "OK"
    THEN Ok(status)
    ELSE ErrTaskFailed(upid, UnwrapOr(status.exitstatus, "UNKNOWN"))

\* wait_for_task, lines 56-68: the result of a poll that observed "stopped"
TerminalResult(upid, status) ==
    IF status.exitstatus = Some("OK")
    THEN Ok(status)
    ELSE ErrTaskFailed(upid, UnwrapOr(status.exitstatus, "UNKNOWN"))

\* TimedOut measuring from an Instant taken inside the loop
TimedOutFresh(timeout, elapsed) ==
    timeout # None /\ 0 > Unwrap(timeout)

\* TimedOut with >= for >
TimedOutGe(timeout, elapsed) ==
    timeout # None /\ elapsed >= Unwrap(timeout)

\* wait_for_task, lines 70-72: if let Some(timeout) && started.elapsed() > timeout
TimedOut(timeout, elapsed) ==
    timeout # None /\ elapsed > Unwrap(timeout)

\* TimeoutError reporting the elapsed time
TimeoutErrorElapsed(upid, timeout, elapsed) ==
    ErrTaskTimeout(upid, AsSecs(elapsed))

\* wait_for_task, lines 73-76: the timeout error
TimeoutError(upid, timeout, elapsed) ==
    ErrTaskTimeout(upid, AsSecs(Unwrap(timeout)))

\* PollOutcome comparing the status string without regard to case
PollOutcomeAnyCase(upid, status, timeout, elapsed) ==
    IF status.status \in {"stopped", "Stopped"}
    THEN TerminalResult(upid, status)
    ELSE IF TimedOut(timeout, elapsed)
         THEN TimeoutError(upid, timeout, elapsed)
         ELSE Pending

\* PollOutcome looking at the deadline before the status
PollOutcomeDeadlineFirst(upid, status, timeout, elapsed) ==
    IF TimedOut(timeout, elapsed)
    THEN TimeoutError(upid, timeout, elapsed)
    ELSE IF status.status = "stopped"
         THEN TerminalResult(upid, status)
         ELSE Pending

\* wait_for_task, lines 56-79: what one loop iteration does with the status
\* it polled; Pending stands for "sleep and poll again"
PollOutcome(upid, status, timeout, elapsed) ==
    IF status.status = "stopped"
    THEN TerminalResult(upid, status)
    ELSE IF TimedOut(timeout, elapsed)
         THEN TimeoutError(upid, timeout, elapsed)
         ELSE Pending

\* AfterQuery polling again after a failed query
AfterQueryRetry(t, r, at) ==
    IF IsErr(r)
    THEN [t EXCEPT !.pc = "poll"]
    ELSE [t EXCEPT !.pc = "classify", !.status = Some(r.value)]

\* wait_for_task, line 55: task_status(..).await? -- an error returns at once
AfterQuery(t, r, at) ==
    IF IsErr(r)
    THEN [t EXCEPT !.pc = "done", !.result = r, !.returned = at]
    ELSE [t EXCEPT !.pc = "classify", !.status = Some(r.value)]

Init ==
    /\ auth \in AuthValues
    /\ now = 0
    /\ calls = {1}
    /\ task = [c \in AllCalls |-> IdleTask]
    /\ lastResp = [c \in AllCalls |-> None]
    /\ wire = {}
    /\ op = IdleOp
    /\ ctor = BuiltCtor
    /\ pveParams = NewParams
    /\ ret = NoCall

\* the clock advances; the model follows it while a call may still start or
\* is under way
Tick ==
    /\ now < MaxNow
    /\ now < MaxStart \/ \E c \in calls : task[c].pc \in {"poll", "awaiting", "classify", "sleeping"}
    /\ now' = now + 1
    /\ UNCHANGED <<auth, calls, task, lastResp, wire, op, ctor, pveParams, ret>>

\* PveClient::set_auth(&mut self): exclusive access, so no call is running
SetAuth(a) ==
    /\ ctor.pc = "built"
    /\ \A c \in AllCalls : task[c].pc \in {"idle", "done"}
    /\ op.pc \in {"idle", "done"}
    /\ a # auth
    /\ auth' = a
    /\ UNCHANGED <<now, calls, task, lastResp, wire, op, ctor, pveParams, ret>>

\* wait_for_task is called: let started = Instant::now()
WaitForTask(c, upid, poll_interval, timeout) ==
    /\ task[c].pc \in {"idle", "done"}
    /\ now <= MaxStart
    /\ task' = [task EXCEPT ![c] =
                  [IdleTask EXCEPT !.pc = "poll", !.upid = upid,
                                   !.poll_interval = poll_interval,
                                   !.timeout = timeout, !.started = now]]
    /\ lastResp' = [lastResp EXCEPT ![c] = None]
    /\ UNCHANGED <<auth, now, calls, wire, op, ctor, pveParams, ret>>

\* task_status -> send(GET, path): build the request, attach auth, send it
Poll(c) ==
    /\ task[c].pc = "poll"
    /\ LET request == ApplyAuth(auth, NewRequest("GET", TaskStatusPath(task[c].upid)), "GET")
       IN  IF IsErr(request)
           THEN /\ task' = [task EXCEPT ![c] = AfterQuery(@, request, now)]
                /\ wire' = wire
           ELSE /\ task' = [task EXCEPT ![c].pc = "awaiting"]
                /\ wire' = wire \cup {[from |-> c, request |-> request.value]}
    /\ UNCHANGED <<auth, now, calls, lastResp, op, ctor, pveParams, ret>>

\* the reply to the status query arrives: transport::execute::<TaskStatus>
Respond(c, resp) ==
    /\ task[c].pc = "awaiting"
    /\ wire' = {m \in wire : m.from # c}
    /\ lastResp' = [lastResp EXCEPT ![c] = Some(resp)]
    /\ task' = [task EXCEPT ![c] = AfterQuery(@, Execute(resp, "TaskStatus"), now)]
    /\ UNCHANGED <<auth, now, calls, op, ctor, pveParams, ret>>

\* Classify polling again at once where the loop sleeps
ClassifyNoSleep(c) ==
    /\ task[c].pc = "classify"
    /\ LET t == task[c]
           r == PollOutcome(t.upid, Unwrap(t.status), t.timeout, Elapsed(t.started))
       IN  task' = [task EXCEPT ![c] =
                      IF r = Pending
                      THEN [t EXCEPT !.pc = "poll"]
                      ELSE [t EXCEPT !.pc = "done", !.result = r, !.returned = now]]
    /\ UNCHANGED <<auth, now, calls, lastResp, wire, op, ctor, pveParams, ret>>

\* Classify reading the status the client's latest poll stored, whichever
\* call made it
ClassifyShared(c) ==
    /\ task[c].pc = "classify"
    /\ LET t == task[c]
           o == CHOOSE d \in AllCalls : d # c
           status == IF task[o].status # None THEN task[o].status ELSE t.status
           r == PollOutcome(t.upid, Unwrap(status), t.timeout, Elapsed(t.started))
       IN  task' = [task EXCEPT ![c] =
                      IF r = Pending
                      THEN [t EXCEPT !.pc = "sleeping", !.wake = now + t.poll_interval]
                      ELSE [t EXCEPT !.pc = "done", !.result = r, !.returned = now]]
    /\ UNCHANGED <<auth, now, calls, lastResp, wire, op, ctor, pveParams, ret>>

\* wait_for_task, lines 56-79: classify the status, return or start the sleep
Classify(c) ==
    /\ task[c].pc = "classify"
    /\ LET t == task[c]
           r == PollOutcome(t.upid, Unwrap(t.status), t.timeout, Elapsed(t.started))
       IN  task' = [task EXCEPT ![c] =
                      IF r = Pending
                      THEN [t EXCEPT !.pc = "sleeping", !.wake = now + t.poll_interval]
                      ELSE [t EXCEPT !.pc = "done", !.result = r, !.returned = now]]
    /\ UNCHANGED <<auth, now, calls, lastResp, wire, op, ctor, pveParams, ret>>

\* sleep(poll_interval) is over: the loop polls again
Wake(c) ==
    /\ task[c].pc = "sleeping"
    /\ now >= task[c].wake
    /\ task' = [task EXCEPT ![c].pc = "poll", ![c].wake = 0]
    /\ UNCHANGED <<auth, now, calls, lastResp, wire, op, ctor, pveParams, ret>>

Next ==
    \/ Tick
    \/ \E a \in AuthValues : SetAuth(a)
    \/ \E c \in calls, u \in Upids, i \in Intervals, t \in Timeouts : WaitForTask(c, u, i, t)
    \/ \E c \in calls : Poll(c)
    \/ \E c \in calls, resp \in TaskResponses : Respond(c, resp)
    \/ \E c \in calls : Classify(c)
    \/ \E c \in calls : Wake(c)

Spec == Init /\ [][Next]_vars

\* RequestBuilder::form
Form(request, params) ==
    [method |-> request.method, path |-> request.path,
     headers |-> request.headers, form |-> params]

\* PveClient::send for an operation that has entered: the URL, apply_auth, the
\* form, then the request goes out and the call awaits the reply
SendFrom(entered, method, path, form, T) ==
    /\ ctor.pc = "built"
    /\ op.pc \in {"idle", "done"}
    /\ LET r == ApplyAuth(auth, NewRequest(method, path), method)
           started == [entered EXCEPT !.method = method, !.T = T, !.auth = auth]
       IN  IF IsErr(r)
           THEN /\ op' = [started EXCEPT !.pc = "done", !.result = r]
                /\ wire' = wire
           ELSE LET request == IF IsSome(form) THEN Form(r.value, Unwrap(form))
                               ELSE r.value
                IN  /\ op' = [started EXCEPT !.pc = "awaiting",
                                             !.request = Some(request), !.nsent = 1]
                    /\ wire' = wire \cup {[from |-> OpId, request |-> request]}
    /\ UNCHANGED <<auth, now, calls, task, lastResp, ctor, pveParams, ret>>

\* an operation that does nothing before it calls send
Send(call, method, path, form, T) ==
    SendFrom([IdleOp EXCEPT !.call = call], method, path, form, T)

\* raw_json(method, "/version", None, None)
Request(method) == Send("raw_json", method, RawPath, None, "Value")

\* qemu_start(node, vmid, &PveParams::new()), which submits a job with a POST
\* to "/nodes/{node}/qemu/{vmid}/status/start"
QemuStart ==
    Send("qemu_start", "POST", <<"nodes", "node1", "qemu", "100", "status", "start">>,
         Some(<<>>), "String")

\* JSON the replies to a single-request operation carry as data: a string
\* and an object
JobIdJson == [str |-> "UPID:a"]
VersionJson == [version |-> "8.2.1"]
\* replies to a single-request operation
OpResponses ==
    {RespError, RespTruncated(200), RespTruncated(500)}
    \cup {RespHttp(st, b) :
            st \in {200, 299, 300, 401, 500},
            b \in {BodyGarbage, BodyJson(ErrorJson), BodyJson([data |-> JobIdJson]),
                   BodyJson([data |-> VersionJson])}}

\* the unit value ()
Unit == <<>>
\* the entry points of the ACL write
AclCalls == {"access_set_acl", "access_set_acl_with", "access_delete_acl_with"}

\* the operation retrying once after a transport error
OpAfterReplyRetry(o, resp) ==
    IF resp.kind = "error"
    THEN [o EXCEPT !.pc = "done", !.resp = Some(resp), !.nsent = @ + 1,
                   !.result = ErrHttp]
    ELSE [o EXCEPT !.pc = "done", !.resp = Some(resp), !.result = Execute(resp, o.T)]

\* the call returns what execute::<T> makes of the reply; the ACL calls drop
\* the value: let _: Value = send(..).await?; Ok(())
OpAfterReply(o, resp) ==
    [o EXCEPT !.pc = "done", !.resp = Some(resp),
              !.result = IF o.call \in AclCalls /\ ~IsErr(Execute(resp, o.T))
                         THEN Ok(Unit) ELSE Execute(resp, o.T)]

\* the reply stored as the client's credentials when it carries a ticket
OpRespondStoringTicket(resp) ==
    /\ op.pc = "awaiting"
    /\ wire' = {m \in wire : m.from # OpId}
    /\ op' = OpAfterReply(op, resp)
    /\ auth' = IF op.T = "TicketInfo" /\ ~IsErr(Execute(resp, op.T))
               THEN AuthTicket(Execute(resp, op.T).value.ticket,
                               Some(Execute(resp, op.T).value.csrf_prevention_token))
               ELSE auth
    /\ UNCHANGED <<now, calls, task, lastResp, ctor, pveParams, ret>>

\* the reply arrives: PveClient::execute, the last step of send
OpRespond(resp) ==
    /\ op.pc = "awaiting"
    /\ wire' = {m \in wire : m.from # OpId}
    /\ op' = OpAfterReply(op, resp)
    /\ UNCHANGED <<auth, now, calls, task, lastResp, ctor, pveParams, ret>>

\* -------------------------------------------------------------- ACL write
\* PveParams::get
Get(params, key) == IF key \in DOMAIN params THEN Some(params[key]) ELSE None
\* has_non_empty of validate_acl_params
HasNonEmpty(params, key) ==
    IsSome(Get(params, key)) /\ Trim(Unwrap(Get(params, key))) # <<>>
\* v == "1" || v.eq_ignore_ascii_case("true")
DeleteAcl(params) ==
    /\ IsSome(Get(params, "delete"))
    /\ \/ Unwrap(Get(params, "delete")) = <<"1">>
       \/ ToAsciiLowercase(Unwrap(Get(params, "delete"))) = <<"t", "r", "u", "e">>
HasTarget(params) ==
    HasNonEmpty(params, "users") \/ HasNonEmpty(params, "groups")
        \/ HasNonEmpty(params, "tokens")

\* validate_acl_params asking a delete for roles and a target both
ValidateAclParamsDeleteNeedsBoth(params) ==
    IF ~HasNonEmpty(params, "path")
    THEN ErrInvalidArgument("access acl requires non-empty path")
    ELSE IF ~HasNonEmpty(params, "roles")
    THEN ErrInvalidArgument("access acl set requires non-empty roles")
    ELSE IF ~HasTarget(params)
    THEN ErrInvalidArgument("access acl set requires at least one of users/groups/tokens")
    ELSE Ok(Unit)

\* validate_acl_params
ValidateAclParams(params) ==
    IF ~HasNonEmpty(params, "path")
    THEN ErrInvalidArgument("access acl requires non-empty path")
    ELSE IF DeleteAcl(params)
    THEN IF ~(HasNonEmpty(params, "roles") \/ HasTarget(params))
         THEN ErrInvalidArgument("access acl delete requires at least one of roles/users/groups/tokens")
         ELSE Ok(Unit)
    ELSE IF ~HasNonEmpty(params, "roles")
    THEN ErrInvalidArgument("access acl set requires non-empty roles")
    ELSE IF ~HasTarget(params)
    THEN ErrInvalidArgument("access acl set requires at least one of users/groups/tokens")
    ELSE Ok(Unit)

\* the params map holding the entries that are Some in a record of options
ParamsOf(entries) ==
    [k \in {key \in DOMAIN entries : IsSome(entries[key])} |-> Unwrap(entries[k])]

\* values of the entries of an ACL params map
StrVms == <<"/", "v">>
AclParams ==
    {ParamsOf(e) :
        e \in [path : {None, Some(<<" ">>), Some(StrVms)},
               roles : {None, Some(<<" ", LF>>), Some(<<"A">>)},
               users : {None, Some(<<>>), Some(<<"u">>)},
               groups : {None, Some(<<"g">>)},
               tokens : {None, Some(<<" ", "t">>)},
               delete : {None, Some(<<"1">>), Some(<<"0">>), Some(<<" ", "1">>),
                         Some(<<"t", "r", "u", "e">>), Some(<<"T", "r", "U", "E">>)}]}

\* AccessSetAclRequest::to_params
SetAclToParams(request) ==
    ParamsOf([path |-> Some(request.path), roles |-> Some(request.roles),
              users |-> request.users, groups |-> request.groups,
              tokens |-> request.tokens,
              propagate |-> IF IsSome(request.propagate)
                            THEN Some(IF Unwrap(request.propagate) THEN <<"1">> ELSE <<"0">>)
                            ELSE None])
\* AccessDeleteAclRequest::to_params
DeleteAclToParams(request) ==
    ParamsOf([path |-> Some(request.path), roles |-> request.roles,
              users |-> request.users, groups |-> request.groups,
              tokens |-> request.tokens, delete |-> Some(<<"1">>)])
SetAclRequests ==
    [path : {<<>>, StrVms}, roles : {<<>>, <<"A">>}, users : {None, Some(<<"u">>)},
     groups : {None}, tokens : {None, Some(<<" ">>)}, propagate : {None, Some(TRUE)}]
DeleteAclRequests ==
    [path : {<<>>, StrVms}, roles : {None, Some(<<"A">>)}, users : {None, Some(<<"u">>)},
     groups : {None, Some(<<>>)}, tokens : {None}]

\* validate_acl_params(params)? lets every map through
AclAllowedAlways(params) == TRUE

\* validate_acl_params(params)? lets the call go on
AclAllowed(params) == ~IsErr(ValidateAclParams(params))

\* access_set_acl, entered through `call` on a client that has made no call
\* yet: validate, then send PUT /access/acl
AccessSetAclFrom(call, params) ==
    /\ ctor.pc = "built"
    /\ op.pc = "idle"
    /\ LET entered == [IdleOp EXCEPT !.call = call, !.params = Some(params),
                                     !.checked = ValidateAclParams(params)]
       IN  IF AclAllowed(params)
           THEN SendFrom(entered, "PUT", <<"access", "acl">>, Some(params), "Value")
           ELSE /\ op' = [entered EXCEPT !.pc = "done", !.auth = auth,
                                         !.result = ValidateAclParams(params)]
                /\ UNCHANGED <<auth, now, calls, task, lastResp, wire, ctor, pveParams, ret>>

\* access_set_acl
AccessSetAcl(params) == AccessSetAclFrom("access_set_acl", params)
\* access_set_acl_with
AccessSetAclWith(request) ==
    AccessSetAclFrom("access_set_acl_with", SetAclToParams(request))
\* access_delete_acl_with
AccessDeleteAclWith(request) ==
    AccessSetAclFrom("access_delete_acl_with", DeleteAclToParams(request))

\* replies to the ACL write
AclResponses ==
    {RespError, RespHttp(200, BodyJson([data |-> [null |-> TRUE]])),
     RespHttp(403, BodyGarbage)}

\* the client used for ACL writes only
NextAcl ==
    \/ \E params \in AclParams : AccessSetAcl(params)
    \/ \E request \in SetAclRequests : AccessSetAclWith(request)
    \/ \E request \in DeleteAclRequests : AccessDeleteAclWith(request)
    \/ \E resp \in AclResponses : OpRespond(resp)

AclSpec == Init /\ [][NextAcl]_vars

\* the client used for single requests only
NextReq ==
    \/ \E a \in AuthValues : SetAuth(a)
    \/ \E m \in Methods : Request(m)
    \/ QemuStart
    \/ \E resp \in OpResponses : OpRespond(resp)

ReqSpec == Init /\ [][NextReq]_vars

\* the arm of from_option's match for credentials that need no request: the
\* Auth the client gets, or the error from_option returns
OptionAuth(ca) ==
    CASE ca.kind = "None" -> Ok(AuthNone)
      [] ca.kind = "ApiToken" ->
            IF IsErr(ValidateApiTokenFormat(ca.token))
            THEN ValidateApiTokenFormat(ca.token)
            ELSE Ok(AuthApiToken(ca.token))
      [] ca.kind = "ApiTokenPartial" ->
            LET user == Trim(ca.user)
                realm == Trim(ca.realm)
                tokenid == Trim(ca.token_id)
                secret == Trim(ca.secret)
                token == FormatToken(user, realm, tokenid, secret)
            IN  IF user = <<>> \/ realm = <<>> \/ tokenid = <<>> \/ secret = <<>>
                THEN ErrInvalidArgument("api token partial fields must be non-empty")
                ELSE IF IsErr(ValidateApiTokenFormat(token))
                THEN ValidateApiTokenFormat(token)
                ELSE Ok(AuthApiToken(token))
      [] ca.kind = "Ticket" -> Ok(AuthTicket(ca.ticket, ca.csrf))

\* the Auth from_option stores after a login, without the anti-CSRF token
AuthOfTicketInfoNoCsrf(info) == AuthTicket(info.ticket, None)

\* the Auth from_option stores after a login
AuthOfTicketInfo(info) == AuthTicket(info.ticket, Some(info.csrf_prevention_token))

\* PveClient::from_option up to its return or, for Password credentials, up
\* to the await of request_ticket on the client it built with Auth::None
FromOption(option) ==
    /\ ctor.pc = "new"
    /\ LET parsed == BuildBaseUrl(option.host, option.port, option.https)
           started == [NewCtor EXCEPT !.option = Some(option)]
       IN  IF IsErr(parsed)
           THEN /\ ctor' = [started EXCEPT !.pc = "failed", !.result = parsed]
                /\ UNCHANGED <<auth, wire>>
           ELSE IF option.auth.kind = "Password"
           THEN LET r == ApplyAuth(AuthNone, NewRequest("POST", TicketPath), "POST")
                    request == Form(r.value, [username |-> option.auth.username,
                                              password |-> option.auth.password])
                IN  /\ ctor' = [started EXCEPT !.pc = "ticket", !.result = Ok(parsed.value),
                                               !.request = Some(request), !.nsent = 1]
                    /\ wire' = wire \cup {[from |-> CtorId, request |-> request]}
                    /\ auth' = AuthNone
           ELSE LET a == OptionAuth(option.auth)
                IN  IF IsErr(a)
                    THEN /\ ctor' = [started EXCEPT !.pc = "failed", !.result = a]
                         /\ UNCHANGED <<auth, wire>>
                    ELSE /\ ctor' = [started EXCEPT !.pc = "built", !.result = Ok(parsed.value),
                                                   !.client_auth = Some(a.value)]
                         /\ auth' = a.value
                         /\ wire' = wire
    /\ UNCHANGED <<now, calls, task, lastResp, op, pveParams, ret>>

\* the reply to the ticket request arrives and from_option returns
TicketRespond(resp) ==
    /\ ctor.pc = "ticket"
    /\ wire' = {m \in wire : m.from # CtorId}
    /\ LET r == Execute(resp, "TicketInfo")
       IN  IF IsErr(r)
           THEN /\ ctor' = [ctor EXCEPT !.pc = "failed", !.result = r, !.resp = Some(resp)]
                /\ auth' = auth
           ELSE /\ ctor' = [ctor EXCEPT !.pc = "built", !.resp = Some(resp),
                                        !.client_auth = Some(AuthOfTicketInfo(r.value))]
                /\ auth' = AuthOfTicketInfo(r.value)
    /\ UNCHANGED <<now, calls, task, lastResp, op, pveParams, ret>>

\* before from_option: no client yet
InitBuild ==
    /\ auth = AuthNone
    /\ now = 0
    /\ calls = {1}
    /\ task = [c \in AllCalls |-> IdleTask]
    /\ lastResp = [c \in AllCalls |-> None]
    /\ wire = {}
    /\ op = IdleOp
    /\ ctor = NewCtor
    /\ pveParams = NewParams
    /\ ret = NoCall

\* what set_auth can be given: any Auth value
AnyAuth == AuthValues \cup {AuthApiToken(BadToken)}

\* a client is constructed, then its credentials replaced
NextBuild ==
    \/ \E option \in ClientOptions : FromOption(option)
    \/ \E resp \in TicketResponses : TicketRespond(resp)
    \/ \E a \in AnyAuth : SetAuth(a)

BuildSpec == InitBuild /\ [][NextBuild]_vars

\* ------------------------------------------------------- concurrent calls
\* request_ticket(&self, ..) on a built client: the caller gets the TicketInfo
RequestTicket ==
    Send("request_ticket", "POST", TicketPath,
         Some([username |-> "root@pam", password |-> "pw"]), "TicketInfo")

\* replies to the status queries of two concurrent waits
ConcTaskResponses ==
    {RespHttp(200, BodyJson(StoppedOkJson)),
     RespHttp(200, BodyJson([data |-> [status |-> "stopped", exitstatus |-> "FAIL"]])),
     RespHttp(200, BodyJson([data |-> [status |-> "running"]])),
     RespHttp(401, BodyGarbage)}

\* two call slots in use on one client, which holds a ticket
InitConc ==
    /\ auth \in {AuthTicket(t, Some(c)) : t \in Tickets, c \in Csrfs}
    /\ now = 0
    /\ calls = AllCalls
    /\ task = [c \in AllCalls |-> IdleTask]
    /\ lastResp = [c \in AllCalls |-> None]
    /\ wire = {}
    /\ op = IdleOp
    /\ ctor = BuiltCtor
    /\ pveParams = NewParams
    /\ ret = NoCall

\* two waits, each for its own job, and a GET interleave at their await points
NextConc ==
    \/ Tick
    \/ \E t \in {None, Some(0)} : WaitForTask(1, "UPID:a", 0, t)
    \/ \E t \in {None, Some(0)} : WaitForTask(2, "UPID:b", 0, t)
    \/ \E c \in calls : Poll(c)
    \/ \E c \in calls, resp \in ConcTaskResponses : Respond(c, resp)
    \/ \E c \in calls : Classify(c)
    \/ \E c \in calls : Wake(c)
    \/ Request("GET")
    \/ \E resp \in {RespError, RespHttp(200, BodyJson([data |-> VersionJson]))} :
          OpRespond(resp)

ConcSpec == InitConc /\ [][NextConc]_vars

\* one client used for every kind of call, its credentials replaced between
\* calls
NextClient ==
    \/ \E a \in AuthValues : SetAuth(a)
    \/ WaitForTask(1, "UPID:a", 0, None)
    \/ Poll(1)
    \/ \E resp \in ConcTaskResponses : Respond(1, resp)
    \/ Classify(1)
    \/ Wake(1)
    \/ \E m \in Methods : Request(m)
    \/ RequestTicket
    \/ \E resp \in TicketResponses : OpRespond(resp)

ClientSpec == Init /\ [][NextClient]_vars

\* --------------------------------------------------------------- PveParams
\* insert keeping the value a key already has
InsertKeepingFirst(map, key, value) ==
    [k \in DOMAIN map \cup {key} |-> IF k \in DOMAIN map THEN map[k] ELSE value]

\* PveParams::insert: BTreeMap::insert, which replaces the value of a key
\* the map holds
Insert(map, key, value) ==
    [k \in DOMAIN map \cup {key} |-> IF k = key THEN value ELSE map[k]]

\* PveParams::insert_opt
InsertOpt(map, key, value) ==
    IF IsSome(value) THEN Insert(map, key, Unwrap(value)) ELSE map

\* PveParams::insert_bool
InsertBool(map, key, value) == Insert(map, key, IF value THEN <<"1">> ELSE <<"0">>)

\* the loop of PveParams::extend over the entries of other not yet inserted
RECURSIVE InsertAll(_, _, _)
InsertAll(map, other, keys) ==
    IF keys = {} THEN map
    ELSE LET key == CHOOSE k \in keys : TRUE
         IN  InsertAll(Insert(map, key, other[key]), other, keys \ {key})

\* PveParams::extend
Extend(map, other) == InsertAll(map, other, DOMAIN other)

\* keys and values the caller writes, and the maps it merges in
ParamKeys == {"vmid", "name"}
ParamValues == {<<"1">>, <<"x">>}
OtherParams ==
    {<<>>, [vmid |-> <<"z">>], [vmid |-> <<"z">>, name |-> <<"0">>]}

\* one write to the caller's PveParams, noted in the log of writes
Write(map, entry) ==
    /\ Len(pveParams.log) < MaxOps
    /\ pveParams' = [map |-> map, log |-> Append(pveParams.log, entry)]
    /\ UNCHANGED <<auth, now, calls, task, lastResp, wire, op, ctor, ret>>

ParamsInsert(key, value) ==
    Write(Insert(pveParams.map, key, value),
          [op |-> "insert", key |-> key, arg |-> value])
ParamsInsertOpt(key, value) ==
    Write(InsertOpt(pveParams.map, key, value),
          [op |-> "insert_opt", key |-> key, arg |-> value])
ParamsInsertBool(key, value) ==
    Write(InsertBool(pveParams.map, key, value),
          [op |-> "insert_bool", key |-> key, arg |-> value])
ParamsExtend(other) ==
    Write(Extend(pveParams.map, other),
          [op |-> "extend", key |-> "", arg |-> other])

NextParams ==
    \/ \E k \in ParamKeys, v \in ParamValues : ParamsInsert(k, v)
    \/ \E k \in ParamKeys, v \in {None, Some(<<"y">>)} : ParamsInsertOpt(k, v)
    \/ \E k \in ParamKeys, v \in BOOLEAN : ParamsInsertBool(k, v)
    \/ \E other \in OtherParams : ParamsExtend(other)

ParamsSpec == Init /\ [][NextParams]_vars

\* ------------------------------------------------------- request builders
\* u32::to_string and u64::to_string: the decimal digits
RECURSIVE U32ToString(_)
U32ToString(n) ==
    IF n < 10 THEN <<Digits10[n + 1]>>
    ELSE U32ToString(n \div 10) \o <<Digits10[(n % 10) + 1]>>
\* Option::map(|v| v.to_string()) of a number
MapToString(o) == IF IsSome(o) THEN Some(U32ToString(Unwrap(o))) ELSE None
\* Option::map(|v| v.to_string()) of an enum, whose Display writes as_str()
MapAsStr(asStr, o) == IF IsSome(o) THEN Some(asStr[Unwrap(o)]) ELSE None
QemuBiosAsStr ==
    [SeaBios |-> <<"s", "e", "a", "b", "i", "o", "s">>, Ovmf |-> <<"o", "v", "m", "f">>]
QemuOsTypeAsStr ==
    [Other |-> <<"o", "t", "h", "e", "r">>, Linux26 |-> <<"l", "2", "6">>,
     Win10 |-> <<"w", "i", "n", "1", "0">>, Win11 |-> <<"w", "i", "n", "1", "1">>]
VzdumpModeAsStr ==
    [Snapshot |-> <<"s", "n", "a", "p", "s", "h", "o", "t">>,
     Suspend |-> <<"s", "u", "s", "p", "e", "n", "d">>, Stop |-> <<"s", "t", "o", "p">>]
VzdumpCompressAsStr ==
    [None |-> <<"0">>, Gzip |-> <<"g", "z", "i", "p">>, Lzo |-> <<"l", "z", "o">>,
     Zstd |-> <<"z", "s", "t", "d">>]
MailNotificationAsStr ==
    [Always |-> <<"a", "l", "w", "a", "y", "s">>,
     Failure |-> <<"f", "a", "i", "l", "u", "r", "e">>]

\* the statements of a to_params in their order: insert for a required
\* field, insert_opt for an optional one, and for an optional flag
\* if let Some(v) = .. { insert_bool }
RECURSIVE InsertFields(_, _)
InsertFields(map, fields) ==
    IF fields = <<>> THEN map
    ELSE LET f == Head(fields)
         IN  InsertFields(
                 CASE f.by = "insert" -> Insert(map, f.key, f.value)
                   [] f.by = "insert_opt" -> InsertOpt(map, f.key, f.value)
                   [] f.by = "insert_bool" ->
                          IF IsSome(f.value) THEN InsertBool(map, f.key, Unwrap(f.value))
                          ELSE map,
                 Tail(fields))
Field(by, key, value) == [by |-> by, key |-> key, value |-> value]

\* the typed fields of QemuCreateRequest as to_params writes them
QemuCreateFields(req) ==
    <<Field("insert", "vmid", U32ToString(req.vmid)),
      Field("insert_opt", "name", req.name),
      Field("insert_opt", "memory", MapToString(req.memory)),
      Field("insert_opt", "cores", MapToString(req.cores)),
      Field("insert_opt", "sockets", MapToString(req.sockets)),
      Field("insert_opt", "cpu", req.cpu),
      Field("insert_opt", "bios", MapAsStr(QemuBiosAsStr, req.bios)),
      Field("insert_opt", "ostype", MapAsStr(QemuOsTypeAsStr, req.ostype)),
      Field("insert_opt", "agent", req.agent),
      Field("insert_opt", "net0", req.net0),
      Field("insert_opt", "scsi0", req.scsi0),
      Field("insert_opt", "virtio0", req.virtio0),
      Field("insert_opt", "machine", req.machine),
      Field("insert_bool", "onboot", req.onboot),
      Field("insert_opt", "tags", req.tags)>>

\* the typed fields of VzdumpRequest as to_params writes them
VzdumpFields(req) ==
    <<Field("insert_bool", "all", req.all),
      Field("insert_opt", "vmid", req.vmid),
      Field("insert_opt", "mode", MapAsStr(VzdumpModeAsStr, req.mode)),
      Field("insert_opt", "storage", req.storage),
      Field("insert_opt", "compress", MapAsStr(VzdumpCompressAsStr, req.compress)),
      Field("insert_opt", "mailnotification",
            MapAsStr(MailNotificationAsStr, req.mailnotification)),
      Field("insert_opt", "mailto", req.mailto),
      Field("insert_opt", "notes-template", req.notes_template),
      Field("insert_bool", "remove", req.remove),
      Field("insert_opt", "stopwait", MapToString(req.stopwait))>>

\* to_params merging extra first, the typed fields over it
ToParamsExtraFirst(fields, extra) == InsertFields(Extend(<<>>, extra), fields)

\* to_params of a request builder: PveParams::new(), the typed fields, then
\* params.extend(&self.extra)
ToParams(fields, extra) == Extend(InsertFields(<<>>, fields), extra)

\* QemuCreateRequest::to_params
QemuCreateToParams(req) == ToParams(QemuCreateFields(req), req.extra)
\* VzdumpRequest::to_params
VzdumpToParams(req) == ToParams(VzdumpFields(req), req.extra)

\* ---------------------------------------------------------------- API path
\* "/api2/json"
StrApiPrefix == <<"/", "a", "p", "i", "2", "/", "j", "s", "o", "n">>

\* normalize_api_path putting the prefix before every path
NormalizeApiPathAlways(path) ==
    IF StartsWith(path, <<"/">>) THEN StrApiPrefix \o path
    ELSE StrApiPrefix \o <<"/">> \o path

\* normalize_api_path
NormalizeApiPath(path) ==
    IF StartsWith(path, StrApiPrefix) THEN path
    ELSE IF StartsWith(path, <<"/">>) THEN StrApiPrefix \o path
    ELSE StrApiPrefix \o <<"/">> \o path

\* ------------------------------------------------- credentials from the env
StrApiToken == <<"A", "P", "I", "_", "T", "O", "K", "E", "N">>
StrApiTokenPartial == <<"A", "P", "I", "_", "T", "O", "K", "E", "N", "_", "P", "A", "R", "T", "I", "A", "L">>
StrUsernamePassword == <<"U", "S", "E", "R", "N", "A", "M", "E", "_", "P", "A", "S", "S", "W", "O", "R", "D">>

\* required_env accepting a blank value
RequiredEnvAllowBlank(env, name) ==
    IF env[name] = None
    THEN ErrInvalidArgument(<<"missing env var ", name>>)
    ELSE Ok(Trim(Unwrap(env[name])))

\* required_env: env::var fails for a variable that is not set (or not
\* Unicode), which env[name] = None stands for
RequiredEnv(env, name) ==
    IF env[name] = None
    THEN ErrInvalidArgument(<<"missing env var ", name>>)
    ELSE IF Trim(Unwrap(env[name])) = <<>>
    THEN ErrInvalidArgument(<<"env var ", name, " must not be empty">>)
    ELSE Ok(Trim(Unwrap(env[name])))

\* optional_env
OptionalEnv(env, name) ==
    IF env[name] = None \/ Trim(Unwrap(env[name])) = <<>> THEN None
    ELSE Some(Trim(Unwrap(env[name])))

\* a run of `let x = f()?;` statements: the first error of results, else value
Try(results, value) ==
    IF \E i \in 1..Len(results) : IsErr(results[i])
    THEN results[CHOOSE i \in 1..Len(results) :
                     IsErr(results[i]) /\ \A j \in 1..(i - 1) : ~IsErr(results[j])]
    ELSE Ok(value)

\* the arm of from_env for "API_TOKEN"
FromEnvApiToken(token) ==
    IF IsErr(token) THEN token
    ELSE IF IsErr(ValidateApiTokenFormat(token.value)) THEN ValidateApiTokenFormat(token.value)
    ELSE Ok([kind |-> "ApiToken", token |-> token.value])

\* the arm of from_env for "API_TOKEN_PARTIAL"
FromEnvApiTokenPartial(user, realm, token_id, secret) ==
    Try(<<user, realm, token_id, secret>>,
        [kind |-> "ApiTokenPartial", user |-> user.value, realm |-> realm.value,
         token_id |-> token_id.value, secret |-> secret.value])

\* the arm of from_env for "USERNAME_PASSWORD"
FromEnvPassword(username, password, otp, realm, tfa_challenge) ==
    Try(<<username, password>>,
        [kind |-> "Password", username |-> username.value, password |-> password.value,
         otp |-> otp, realm |-> realm, tfa_challenge |-> tfa_challenge])

\* the match of from_env on the method it read
FromEnvMethod(env, method) ==
    IF IsErr(method) THEN method
    ELSE IF method.value = StrApiToken
    THEN FromEnvApiToken(RequiredEnv(env, "PVE_API_TOKEN"))
    ELSE IF method.value = StrApiTokenPartial
    THEN FromEnvApiTokenPartial(RequiredEnv(env, "PVE_API_TOKEN_USER"),
                                RequiredEnv(env, "PVE_API_TOKEN_REALM"),
                                RequiredEnv(env, "PVE_API_TOKEN_ID"),
                                RequiredEnv(env, "PVE_API_TOKEN_SECRET"))
    ELSE IF method.value = StrUsernamePassword
    THEN FromEnvPassword(RequiredEnv(env, "PVE_USERNAME"), RequiredEnv(env, "PVE_PASSWORD"),
                         OptionalEnv(env, "PVE_OTP"), OptionalEnv(env, "PVE_REALM"),
                         OptionalEnv(env, "PVE_TFA_CHALLENGE"))
    ELSE ErrInvalidArgument(<<"unsupported PVE_AUTH_METHOD=", method.value>>)

\* ClientAuth::from_env
FromEnv(env) == FromEnvMethod(env, RequiredEnv(env, "PVE_AUTH_METHOD"))

\* ------------------------------------------------- calls without effects
\* pieces the callers' paths are made of, and how many a path has at most
MaxPieces == 4
PathPieces == {<<"/">>, <<"a", "p", "i", "2", "/", "j", "s", "o", "n">>, <<"n">>}
RECURSIVE PathsOf(_)
PathsOf(n) ==
    IF n = 0 THEN {<<>>}
    ELSE PathsOf(n - 1) \cup {p \o q : p \in PathsOf(n - 1), q \in PathPieces}
ApiPaths == PathsOf(MaxPieces)

\* QemuCreateRequest values: new(vmid) with some fields set, and extra maps
\* that name typed fields or other keys
ExtraParams ==
    {<<>>, [vmid |-> <<"7">>], [name |-> <<"z">>, onboot |-> <<"t", "r", "u", "e">>],
     [numa |-> <<"1">>], [vmid |-> <<"7">>, numa |-> <<"1">>]}
QemuCreateRequests ==
    [vmid : {100, 220}, name : {None, Some(<<"d", "e", "m", "o">>)},
     memory : {None, Some(512)}, cores : {None}, sockets : {None}, cpu : {None},
     bios : {None, Some("Ovmf")}, ostype : {None, Some("Linux26")}, agent : {None},
     net0 : {None}, scsi0 : {None}, virtio0 : {None}, machine : {None},
     onboot : {None, Some(TRUE), Some(FALSE)}, tags : {None}, extra : ExtraParams]
VzdumpExtraParams ==
    {<<>>, [all |-> <<"1">>], [vmid |-> <<"7">>, mode |-> <<"s", "t", "o", "p">>],
     [zstd |-> <<"1">>]}
VzdumpRequests ==
    [all : {None, Some(TRUE), Some(FALSE)}, vmid : {None, Some(<<"1", "0", "0">>)},
     mode : {None, Some("Snapshot")}, storage : {None}, compress : {None, Some("None")},
     mailnotification : {None, Some("Failure")}, mailto : {None},
     notes_template : {None, Some(<<"n">>)}, remove : {None, Some(FALSE)},
     stopwait : {None, Some(10)}, extra : VzdumpExtraParams]

\* host strings given to build_base_url, ports and the TLS flag
HostStrings ==
    Hosts \cup
    {<<"2", "0", "0", "1", ":", "d", "b", "8", ":", ":", "1">>, <<"[", ":", ":", "1", "]">>, <<"[", ":", ":", "1", "]", ":", "1">>,
     <<"a", ":", "b", ":", "c">>, <<" ", ":", ":", "1", " ">>, <<":", ":", "1", "/">>,
     <<"0", ":", "0", ":", "0", ":", "0", ":", "0", ":", "0", ":", "0", ":", "1">>,
     StrHttps \o <<"h", ":", "4", "4", "3">>, StrHttps \o <<"h", ":", "1">>,
     StrHttp \o <<"h", "/", "p">>, StrHttp \o <<"h", "?", "q">>,
     StrHttp \o <<"h", "#", "f">>, StrHttp \o <<"u", "@", "h">>,
     StrHttp \o <<"u", ":", "p", "@", "h">>, StrHttps \o <<"[", ":", ":", "1", "]">>,
     StrHttps \o <<"[", ":", ":", "1", "]", ":", "2">>}
Ports == {DEFAULT_PORT, <<"4", "4", "3">>}

\* the process environment: what each variable from_env reads is set to
Envs ==
    [PVE_AUTH_METHOD : {None, Some(<<" ">>), Some(StrApiToken),
                          Some(<<" ">> \o StrApiTokenPartial \o <<LF>>),
                          Some(StrUsernamePassword), Some(<<"I", "N", "V", "A", "L", "I", "D">>),
                          Some(<<"a", "p", "i", "_", "t", "o", "k", "e", "n">>)},
     PVE_API_TOKEN : {None, Some(GoodToken), Some(<<" ">> \o GoodToken \o <<" ">>),
                        Some(BadToken), Some(<<"u", "@", "r", "!", "t", "=">>)},
     PVE_API_TOKEN_USER : {None, Some(<<"u">>), Some(<<" ">>)},
     PVE_API_TOKEN_REALM : {None, Some(<<"r">>)},
     PVE_API_TOKEN_ID : {Some(<<>>), Some(<<"t">>)},
     PVE_API_TOKEN_SECRET : {None, Some(<<"s", " ">>)},
     PVE_USERNAME : {None, Some(<<"u">>), Some(<<LF>>)},
     PVE_PASSWORD : {None, Some(<<" ", "p">>)},
     PVE_OTP : {None, Some(<<" ">>), Some(<<" ", "o", " ">>)},
     PVE_REALM : {None, Some(<<"p", "a", "m">>)},
     PVE_TFA_CHALLENGE : {None, Some(<<>>)}]

\* a function called with args, which has not returned
Called(fn, args) == [fn |-> fn, args |-> args, out |-> None]

InitFn ==
    /\ auth = AuthNone
    /\ now = 0
    /\ calls = {1}
    /\ task = [c \in AllCalls |-> IdleTask]
    /\ lastResp = [c \in AllCalls |-> None]
    /\ wire = {}
    /\ op = IdleOp
    /\ ctor = NewCtor
    /\ pveParams = NewParams
    /\ \/ \E req \in QemuCreateRequests : ret = Called("QemuCreateRequest::to_params", <<req>>)
       \/ \E req \in VzdumpRequests : ret = Called("VzdumpRequest::to_params", <<req>>)
       \/ \E path \in ApiPaths : ret = Called("normalize_api_path", <<path>>)
       \/ \E host \in HostStrings, port \in Ports, https \in BOOLEAN :
             ret = Called("build_base_url", <<host, port, https>>)
       \/ \E env \in Envs : ret = Called("ClientAuth::from_env", <<env>>)

\* the function returns value
Return(fn, value) ==
    /\ ret.fn = fn
    /\ ret.out = None
    /\ ret' = [ret EXCEPT !.out = Some(value)]
    /\ UNCHANGED <<auth, now, calls, task, lastResp, wire, op, ctor, pveParams>>

NextFn ==
    \/ Return("QemuCreateRequest::to_params", QemuCreateToParams(ret.args[1]))
    \/ Return("VzdumpRequest::to_params", VzdumpToParams(ret.args[1]))
    \/ Return("normalize_api_path", NormalizeApiPath(ret.args[1]))
    \/ Return("build_base_url", BuildBaseUrl(ret.args[1], ret.args[2], ret.args[3]))
    \/ Return("ClientAuth::from_env", FromEnv(ret.args[1]))

FnSpec == InitFn /\ [][NextFn]_vars

\* ------------------------------------------------- raw-parameter operations
\* the body with the caller's entries written over the explicit arguments
RawBodyCallerWins(params, explicit) == Extend(InsertFields(<<>>, explicit), params)

\* let mut body = params.clone(); body.insert(..) for each explicit argument
RawBody(params, explicit) == InsertFields(params, explicit)

\* an operation that takes explicit arguments next to the caller's map
\* pveParams, which it borrows: POST of the body to path
RawCall(call, args, path, explicit, T) ==
    SendFrom([IdleOp EXCEPT !.call = call, !.args = args,
                            !.params = Some(pveParams.map)],
             "POST", path, Some(RawBody(pveParams.map, explicit)), T)

\* qemu_create(node, vmid, params)
QemuCreate(vmid) ==
    RawCall("qemu_create", [vmid |-> vmid], <<"nodes", "node1", "qemu">>,
            <<Field("insert", "vmid", U32ToString(vmid))>>, "String")

\* qemu_clone(node, vmid, newid, params)
QemuClone(newid) ==
    RawCall("qemu_clone", [newid |-> newid], <<"nodes", "node1", "qemu", "100", "clone">>,
            <<Field("insert", "newid", U32ToString(newid))>>, "String")

\* storage_allocate_disk(node, storage, vmid, filename, size, params)
StorageAllocateDisk(vmid, filename, size) ==
    RawCall("storage_allocate_disk", [vmid |-> vmid, filename |-> filename, size |-> size],
            <<"nodes", "node1", "storage", "local", "content">>,
            <<Field("insert", "vmid", U32ToString(vmid)),
              Field("insert", "filename", filename),
              Field("insert", "size", size)>>, "String")

\* access_create_user_token(userid, tokenid, params)
AccessCreateUserToken(tokenid) ==
    RawCall("access_create_user_token", [tokenid |-> tokenid],
            <<"access", "users", "root%40pam", "token">>,
            <<Field("insert", "tokenid", tokenid)>>, "Value")

\* maps the caller passes: empty, naming explicit arguments, naming others
CallerParams ==
    {<<>>, [vmid |-> <<"7">>, cores |-> <<"2">>],
     [vmid |-> <<"7">>, filename |-> <<"f">>, size |-> <<"1", "G">>],
     [newid |-> <<"9">>, full |-> <<"1">>],
     [tokenid |-> <<"x">>, comment |-> <<"c">>]}

InitRaw ==
    /\ auth \in AuthValues
    /\ now = 0
    /\ calls = {1}
    /\ task = [c \in AllCalls |-> IdleTask]
    /\ lastResp = [c \in AllCalls |-> None]
    /\ wire = {}
    /\ op = IdleOp
    /\ ctor = BuiltCtor
    /\ pveParams \in {[map |-> m, log |-> <<>>] : m \in CallerParams}
    /\ ret = NoCall

NextRaw ==
    \/ QemuCreate(100)
    \/ QemuClone(101)
    \/ StorageAllocateDisk(100, <<"d">>, <<"4", "G">>)
    \/ AccessCreateUserToken(<<"c", "i">>)
    \/ \E resp \in {RespError, RespHttp(200, BodyJson([data |-> JobIdJson])),
                    RespHttp(500, BodyGarbage)} : OpRespond(resp)

RawSpec == InitRaw /\ [][NextRaw]_vars

\* the scheduling the runtime guarantees: time advances, every request is
\* answered, and a call that can take its next step does so
Fairness ==
    /\ WF_vars(Tick)
    /\ \A c \in AllCalls :
          /\ WF_vars(Poll(c))
          /\ WF_vars(\E resp \in TaskResponses : Respond(c, resp))
          /\ WF_vars(Classify(c))
          /\ WF_vars(Wake(c))

LiveSpec == Init /\ [][Next]_vars /\ Fairness

\* the latest reply to call c's status query decoded to a status that is not
\* "stopped"
NonStoppedReply(c) ==
    /\ lastResp[c] # None
    /\ LET r == Execute(Unwrap(lastResp[c]), "TaskStatus")
       IN  r.kind = "Ok" /\ r.value.status # "stopped"

Running(c) == task[c].pc \in {"poll", "awaiting", "classify", "sleeping"}

\* C3: a wait with a deadline ends; when its polls only ever saw a status
\* that is not "stopped", it ends with TaskTimeout carrying the caller's upid
EventuallyTimesOut ==
    \A c \in AllCalls :
        (Running(c) /\ task[c].timeout # None)
        ~> (/\ task[c].pc = "done"
            /\ (NonStoppedReply(c) => task[c].result.kind = "TaskTimeout"
                                      /\ task[c].result.upid = task[c].upid))

\* a wait that has ended with TaskTimeout
TimedOutWait ==
    \E c \in AllCalls : task[c].pc = "done" /\ task[c].result.kind = "TaskTimeout"

\* the latest reply to call c's status query, decoded
LastStatus(c) == Execute(Unwrap(lastResp[c]), "TaskStatus")

\* C1: wait_for_task returns success only when the latest status query
\* returned status "stopped" with exitstatus "OK", and the value returned is
\* the payload of that latest reply
SuccessIsLastPoll ==
    \A c \in AllCalls :
        task[c].result.kind = "Ok" =>
            /\ lastResp[c] # None
            /\ LastStatus(c).kind = "Ok"
            /\ LastStatus(c).value.status = "stopped"
            /\ LastStatus(c).value.exitstatus = Some("OK")
            /\ task[c].result.value = LastStatus(c).value

\* a wait succeeded after time passed, returning the server's whole payload
SucceededAfterWaiting ==
    \E c \in AllCalls :
        /\ task[c].result.kind = "Ok"
        /\ task[c].returned > task[c].started
        /\ task[c].upid = "UPID:a"
        /\ task[c].result.value.upid = Some("UPID:b")

\* the latest reply to call c's status query reported "stopped"
StoppedReply(c) ==
    /\ lastResp[c] # None
    /\ LastStatus(c).kind = "Ok"
    /\ LastStatus(c).value.status = "stopped"

\* C2: once a wait has ended on a "stopped" status whose exitstatus is not
\* "OK", its result is TaskFailed with the caller's upid and that exit status,
\* or "UNKNOWN" when the exit status is absent; never success
StoppedNotOkFails ==
    \A c \in AllCalls :
        (task[c].pc = "done" /\ StoppedReply(c)
            /\ LastStatus(c).value.exitstatus # Some("OK")) =>
            task[c].result =
                [kind |-> "TaskFailed", upid |-> task[c].upid,
                 exitstatus |-> IF LastStatus(c).value.exitstatus = None
                                THEN "UNKNOWN"
                                ELSE Unwrap(LastStatus(c).value.exitstatus)]

\* a wait for UPID:a failed on a stopped job without exit status whose payload
\* named another upid
FailedUnknown ==
    \E c \in AllCalls :
        /\ task[c].pc = "done"
        /\ task[c].upid = "UPID:a"
        /\ StoppedReply(c)
        /\ LastStatus(c).value.upid = Some("UPID:b")
        /\ task[c].result.kind = "TaskFailed"
        /\ task[c].result.exitstatus = "UNKNOWN"

QueryError(resp) ==
    IF resp.kind = "error" THEN [kind |-> "Http"]
    ELSE IF resp.status < 200 \/ resp.status > 299
         THEN [kind |-> "ApiStatus", status |-> resp.status, body |-> resp.body]
         ELSE [kind |-> "Decode"]
FailedReply(c) ==
    /\ lastResp[c] # None
    /\ LET resp == Unwrap(lastResp[c])
       IN  \/ resp.kind = "error"
           \/ resp.status < 200 \/ resp.status > 299
           \/ ~resp.body.json
           \/ "data" \notin DOMAIN resp.body.value
           \/ "status" \notin DOMAIN resp.body.value.data

\* C5: when a status query fails, the wait has ended with that very error:
\* the call is not polling or sleeping and has no request outstanding
QueryErrorEndsWait ==
    \A c \in AllCalls :
        FailedReply(c) =>
            /\ task[c].pc = "done"
            /\ task[c].result = QueryError(Unwrap(lastResp[c]))
            /\ \A m \in wire : m.from # c

\* a wait ended by a 500 reply after it had slept at least once
EndedByApiStatus ==
    \E c \in AllCalls :
        /\ task[c].pc = "done"
        /\ task[c].result.kind = "ApiStatus"
        /\ task[c].result.status = 500
        /\ task[c].status # None

\* C6: a wait without deadline never returns TaskTimeout, and never returns
\* after a reply whose status is anything but exactly "stopped"
NoDeadlineKeepsPolling ==
    \A c \in AllCalls :
        task[c].timeout = None =>
            /\ task[c].result.kind # "TaskTimeout"
            /\ (NonStoppedReply(c) => task[c].pc \in {"classify", "sleeping", "poll", "awaiting"})

\* a wait without deadline sleeping on a "Stopped" status with every deadline
\* a caller could have supplied long past
PollingPastEveryDeadline ==
    \E c \in AllCalls :
        /\ task[c].timeout = None
        /\ task[c].pc = "sleeping"
        /\ LastStatus(c).value.status = "Stopped"
        /\ now - task[c].started > MaxTimeout

\* C7: TaskTimeout is returned only when a deadline was supplied, the latest
\* poll saw a status that is not "stopped", and the time elapsed since the
\* start of the wait exceeds the deadline; a wait goes back to sleep exactly
\* when the time elapsed is within the deadline, however often it has polled
TimeoutOnlyPastDeadline ==
    \A c \in AllCalls :
        /\ task[c].result.kind = "TaskTimeout" =>
              /\ task[c].timeout # None
              /\ NonStoppedReply(c)
              /\ task[c].returned - task[c].started > Unwrap(task[c].timeout)
        /\ (task[c].pc = "sleeping" /\ task[c].timeout # None) =>
              (task[c].wake - task[c].poll_interval) - task[c].started
                  <= Unwrap(task[c].timeout)

\* a wait that polled when the time elapsed equalled its deadline, after an
\* earlier sleep, and went back to sleep
SleepingAtDeadline ==
    \E c \in AllCalls :
        /\ task[c].pc = "sleeping"
        /\ task[c].timeout # None
        /\ Unwrap(task[c].timeout) > 0
        /\ (task[c].wake - task[c].poll_interval) - task[c].started
               = Unwrap(task[c].timeout)

MutatingMethods == {"POST", "PUT", "DELETE", "PATCH"}
OpOnWire == \E m \in wire : m.from = OpId

\* C8: with Ticket auth and no CSRF token, a POST, PUT, DELETE or PATCH
\* request fails with MissingCsrfToken and nothing is put on the network
WriteWithoutCsrfNotSent ==
    (/\ op.pc # "idle"
     /\ op.auth.kind = "Ticket"
     /\ op.auth.csrf = None
     /\ op.method \in MutatingMethods) =>
        /\ op.pc = "done"
        /\ op.result = [kind |-> "MissingCsrfToken"]
        /\ op.request = None
        /\ op.nsent = 0
        /\ ~OpOnWire

\* a PATCH under a ticket without CSRF token was refused
PatchRefused ==
    /\ op.pc = "done"
    /\ op.method = "PATCH"
    /\ op.auth.kind = "Ticket"
    /\ op.result.kind = "MissingCsrfToken"

CookieOf(a) == <<"cookie", StrPVEAuthCookie \o a.ticket>>
CsrfOf(a) == <<"CSRFPreventionToken", Unwrap(a.csrf)>>

AuthorizationOf(a) == <<"authorization", StrPVEAPIToken \o a.token>>
HeaderNames(request) == {h[1] : h \in request.headers}

\* C10 as stated: with ApiToken(t) every request is sent with the single
\* header Authorization: PVEAPIToken=<t>; with None no header is attached;
\* Ticket mode never attaches Authorization
ApiTokenNeverFails ==
    op.pc # "idle" =>
        /\ op.auth.kind = "ApiToken" =>
              /\ op.request # None
              /\ Unwrap(op.request).headers = {AuthorizationOf(op.auth)}
        /\ op.auth.kind = "None" =>
              /\ op.request # None
              /\ Unwrap(op.request).headers = {}
        /\ (op.auth.kind = "Ticket" /\ op.request # None) =>
              "authorization" \notin HeaderNames(Unwrap(op.request))

HasCtlChar(s) == \E i \in 1..Len(s) : s[i] \in CtlChars

\* C10 amended: with ApiToken(t) a request of any method is sent with the
\* single header Authorization: PVEAPIToken=<t> when t has no control
\* character, and fails with InvalidArgument, unsent, when it has one; with
\* None it is sent without header; Ticket mode never attaches Authorization
ApiTokenHeaders ==
    op.pc # "idle" =>
        /\ (op.auth.kind = "ApiToken" /\ ~HasCtlChar(op.auth.token)) =>
              /\ op.request # None
              /\ Unwrap(op.request).headers = {AuthorizationOf(op.auth)}
        /\ (op.auth.kind = "ApiToken" /\ HasCtlChar(op.auth.token)) =>
              /\ op.request = None
              /\ op.result.kind = "InvalidArgument"
              /\ ~OpOnWire
        /\ op.auth.kind = "None" =>
              /\ op.request # None
              /\ Unwrap(op.request).headers = {}
        /\ (op.auth.kind = "Ticket" /\ op.request # None) =>
              "authorization" \notin HeaderNames(Unwrap(op.request))

\* a DELETE sent under an API token
ApiTokenDeleteSent ==
    /\ op.pc = "awaiting"
    /\ op.method = "DELETE"
    /\ op.auth.kind = "ApiToken"
    /\ OpOnWire

\* ------------------------------------------------- construction and tokens
\* <user>@<realm>!<tokenid>=<secret>: an '@', later a '!', later an '=', with
\* a character before, between and after them
MatchesTokenShape(t) ==
    \E i, j, k \in 1..Len(t) :
        /\ t[i] = "@" /\ t[j] = "!" /\ t[k] = "="
        /\ 1 < i /\ i + 1 < j /\ j + 1 < k /\ k < Len(t)

OptionGiven == Unwrap(ctor.option)
HostAccepted == ~IsErr(BuildBaseUrl(OptionGiven.host, OptionGiven.port, OptionGiven.https))

\* C11: in every state of a constructed client, whatever calls followed
\* (set_auth among them), an ApiToken it holds has the shape
\* <user>@<realm>!<tokenid>=<secret> with four non-empty segments; a client
\* built from partial fields got the trimmed fields joined in that shape; and
\* a malformed token made construction fail with InvalidArgument
HeldApiTokenWellFormed ==
    ctor.pc \in {"built", "failed"} =>
        /\ (ctor.pc = "built" /\ auth.kind = "ApiToken") => MatchesTokenShape(auth.token)
        /\ (ctor.pc = "built" /\ OptionGiven.auth.kind = "ApiTokenPartial") =>
              ctor.client_auth =
                  Some(AuthApiToken(Trim(OptionGiven.auth.user) \o <<"@">>
                                    \o Trim(OptionGiven.auth.realm) \o <<"!">>
                                    \o Trim(OptionGiven.auth.token_id) \o <<"=">>
                                    \o Trim(OptionGiven.auth.secret)))
        /\ (/\ OptionGiven.auth.kind = "ApiToken"
            /\ ~MatchesTokenShape(OptionGiven.auth.token)
            /\ HostAccepted) =>
              ctor.pc = "failed" /\ ctor.result.kind = "InvalidArgument"

IsPasswordLogin == ctor.pc # "new" /\ OptionGiven.auth.kind = "Password"
LoginSucceeded(resp) ==
    /\ resp.kind = "http"
    /\ resp.status >= 200 /\ resp.status <= 299
    /\ resp.body.json
    /\ "data" \in DOMAIN resp.body.value
    /\ {"username", "ticket", "CSRFPreventionToken"} \subseteq DOMAIN resp.body.value.data

\* C12: from_option with Password credentials and an accepted host sends one
\* request, POST /access/ticket without any header; when the reply carries a
\* ticket and an anti-CSRF token the client returned holds Ticket(that ticket,
\* Some(that token)); when the request fails construction fails with the
\* request's error and returns no client
PasswordLoginOnce ==
    (IsPasswordLogin /\ HostAccepted) =>
        /\ ctor.nsent = 1
        /\ Unwrap(ctor.request).method = "POST"
        /\ Unwrap(ctor.request).path = <<"access", "ticket">>
        /\ Unwrap(ctor.request).headers = {}
        /\ ctor.pc = "ticket" <=> ctor.resp = None
        /\ ctor.pc = "ticket" <=> \E m \in wire : m.from = CtorId
        /\ (ctor.resp # None /\ LoginSucceeded(Unwrap(ctor.resp))) =>
              /\ ctor.pc = "built"
              /\ ctor.client_auth =
                    Some([kind |-> "Ticket",
                          ticket |-> Unwrap(ctor.resp).body.value.data.ticket,
                          csrf |-> Some(Unwrap(ctor.resp).body.value.data.CSRFPreventionToken)])
        /\ (ctor.resp # None /\ ~LoginSucceeded(Unwrap(ctor.resp))) =>
              /\ ctor.pc = "failed"
              /\ ctor.result = QueryError(Unwrap(ctor.resp))
              /\ ctor.client_auth = None
              /\ auth = AuthNone

\* a client returned by a password login, holding the ticket it was given
LoggedInWithTicket ==
    /\ IsPasswordLogin
    /\ ctor.pc = "built"
    /\ ctor.nsent = 1
    /\ auth.kind = "Ticket"
    /\ auth.csrf # None

\* a host string with more than a host in it, or with nothing in it: a port,
\* a path, a query, a fragment, credentials
StripScheme(h) ==
    IF StartsWith(h, StrHttps) THEN SubSeq(h, Len(StrHttps) + 1, Len(h))
    ELSE IF StartsWith(h, StrHttp) THEN SubSeq(h, Len(StrHttp) + 1, Len(h))
    ELSE h
HostWithPort(h) ==
    \E i \in 2..(Len(h) - 1) :
        /\ h[i] = ":"
        /\ \A j \in (i + 1)..Len(h) : h[j] \in Digits
        /\ h[i - 1] = "]" \/ \A j \in 1..(i - 1) : h[j] # ":"
HostWithPath(h) ==
    \E i \in 2..(Len(h) - 1) : h[i] = "/"
InvalidHost(h) ==
    \/ Trim(h) = <<>>
    \/ HostWithPort(StripScheme(Trim(h)))
    \/ HostWithPath(StripScheme(Trim(h)))
    \/ Contains(h, "?") \/ Contains(h, "#") \/ Contains(h, "@")

\* C19: given an invalid host (embedded port, path, query, fragment,
\* credentials, or empty) or a malformed API token, from_option fails with a
\* configuration error and sends no request, Password credentials included
ConfigErrorsSendNothing ==
    (/\ ctor.pc # "new"
     /\ \/ InvalidHost(OptionGiven.host)
        \/ (OptionGiven.auth.kind = "ApiToken" /\ ~MatchesTokenShape(OptionGiven.auth.token))) =>
        /\ ctor.pc = "failed"
        /\ ctor.result.kind \in {"InvalidBaseUrl", "InvalidArgument"}
        /\ ctor.nsent = 0
        /\ ctor.request = None

\* ------------------------------------------------ single-request operations
OpReply == Unwrap(op.resp)
OpRequests == {m \in wire : m.from = OpId}

\* C14: a single-request operation sends at most one request per call,
\* whatever its outcome: once it has returned nothing of it is on the wire and
\* no second request was sent; an operation that submits a job returns the
\* job id of the reply after its one POST, which is no task-status query
AtMostOneRequest ==
    /\ op.nsent <= 1
    /\ Cardinality(OpRequests) <= 1
    /\ op.pc = "awaiting" => (op.nsent = 1 /\ OpRequests = {[from |-> OpId, request |-> Unwrap(op.request)]})
    /\ op.pc = "done" => OpRequests = {}
    /\ (op.pc = "done" /\ op.resp # None) => op.nsent = 1
    /\ (op.pc = "done" /\ op.call = "qemu_start" /\ op.result.kind = "Ok") =>
          /\ op.nsent = 1
          /\ op.result.value = OpReply.body.value.data.str
          /\ Unwrap(op.request).method = "POST"
          /\ \A u \in Upids : Unwrap(op.request).path # TaskStatusPath(u)
          /\ \A c \in AllCalls : task[c].pc = "idle"

\* a job submitted and its id returned
JobSubmitted ==
    /\ op.pc = "done"
    /\ op.call = "qemu_start"
    /\ op.result = [kind |-> "Ok", value |-> "UPID:a"]

HasStatus(resp) == resp.kind \in {"http", "truncated"}
NotSuccess(resp) == resp.status < 200 \/ resp.status > 299

\* C17 as stated: for every response with a status outside 200-299 the call
\* fails with ApiStatus carrying that status and the body
EveryNon2xxIsApiStatus ==
    (op.pc = "done" /\ op.resp # None /\ HasStatus(OpReply) /\ NotSuccess(OpReply)) =>
        /\ op.result.kind = "ApiStatus"
        /\ op.result.status = OpReply.status

\* C17 amended: for every response with a status outside 200-299 whose body
\* was read, the call fails with ApiStatus carrying that status and that
\* body, envelope or not; when reading the body fails the call fails with the
\* transport error, whatever the status
Non2xxIsApiStatus ==
    (op.pc = "done" /\ op.resp # None /\ HasStatus(OpReply)) =>
        /\ (OpReply.kind = "http" /\ NotSuccess(OpReply)) =>
              op.result = [kind |-> "ApiStatus", status |-> OpReply.status,
                           body |-> OpReply.body]
        /\ OpReply.kind = "truncated" => op.result = [kind |-> "Http"]

\* a 401 reply whose body is a well-formed envelope, reported as ApiStatus
EnvelopeWith401 ==
    /\ op.pc = "done"
    /\ op.resp = Some(RespHttp(401, BodyJson([data |-> VersionJson])))
    /\ op.result.kind = "ApiStatus"

HasEnvelope(resp) == resp.body.json /\ "data" \in DOMAIN resp.body.value

\* C18: for a 2xx response with body {"data": X} the call returns exactly X
\* when X matches the target type (any X for Value, a string for String) and
\* a Decode error when it does not; a 2xx body that is not JSON or has no
\* data fails with a Decode error
EnvelopeDataReturned ==
    (op.pc = "done" /\ op.resp # None /\ OpReply.kind = "http" /\ ~NotSuccess(OpReply)) =>
        /\ (HasEnvelope(OpReply) /\ op.T = "Value") =>
              op.result = [kind |-> "Ok", value |-> OpReply.body.value.data]
        /\ (HasEnvelope(OpReply) /\ op.T = "String"
              /\ DOMAIN OpReply.body.value.data = {"str"}) =>
              op.result = [kind |-> "Ok", value |-> OpReply.body.value.data.str]
        /\ (HasEnvelope(OpReply) /\ op.T = "String"
              /\ DOMAIN OpReply.body.value.data # {"str"}) =>
              op.result = [kind |-> "Decode"]
        /\ ~HasEnvelope(OpReply) => op.result = [kind |-> "Decode"]

\* a 200 reply whose data was returned as it came
VersionReturned ==
    /\ op.pc = "done"
    /\ op.resp = Some(RespHttp(200, BodyJson([data |-> VersionJson])))
    /\ op.result = [kind |-> "Ok", value |-> VersionJson]

\* ---------------------------------------------------------------- ACL write
AclParamsGiven == Unwrap(op.params)
\* an entry that is absent or holds white space only
Blank(params, key) ==
    key \notin DOMAIN params \/ \A i \in 1..Len(params[key]) : params[key][i] \in {" ", LF}
\* the delete entry is "1" or "true" in any case of letters
DeleteTruthy(params) ==
    /\ "delete" \in DOMAIN params
    /\ \/ params["delete"] = <<"1">>
       \/ /\ Len(params["delete"]) = 4
          /\ params["delete"][1] \in {"t", "T"}
          /\ params["delete"][2] \in {"r", "R"}
          /\ params["delete"][3] \in {"u", "U"}
          /\ params["delete"][4] \in {"e", "E"}
SomeTarget(params) ==
    ~Blank(params, "users") \/ ~Blank(params, "groups") \/ ~Blank(params, "tokens")
AclAcceptable(params) ==
    /\ ~Blank(params, "path")
    /\ IF DeleteTruthy(params)
       THEN ~Blank(params, "roles") \/ SomeTarget(params)
       ELSE ~Blank(params, "roles") /\ SomeTarget(params)

\* C15: validate_acl_params accepts a map iff path is non-blank and, for a
\* delete (delete is "1" or "true" in any case), roles or one of
\* users/groups/tokens is non-blank, and for a set, roles and one of
\* users/groups/tokens are non-blank; a rejected map yields InvalidArgument
AclAcceptedIffWellFormed ==
    (op.call \in AclCalls /\ op.pc # "idle") =>
        /\ op.checked.kind = "Ok" <=> AclAcceptable(AclParamsGiven)
        /\ op.checked.kind # "Ok" => op.checked.kind = "InvalidArgument"

\* a delete accepted with a target and without roles
DeleteWithoutRolesAccepted ==
    /\ op.call = "access_set_acl"
    /\ op.checked.kind = "Ok"
    /\ DeleteTruthy(AclParamsGiven)
    /\ AclParamsGiven["delete"] # <<"1">>
    /\ Blank(AclParamsGiven, "roles")
    /\ "roles" \in DOMAIN AclParamsGiven

\* C16: when the validation of an ACL write fails, through access_set_acl,
\* access_set_acl_with or access_delete_acl_with, the call has returned
\* InvalidArgument and has sent no request: none was built, none is on the
\* wire
RejectedAclNotSent ==
    (op.call \in AclCalls /\ op.pc # "idle" /\ ~AclAcceptable(AclParamsGiven)) =>
        /\ op.pc = "done"
        /\ op.result.kind = "InvalidArgument"
        /\ op.result = op.checked
        /\ op.request = None
        /\ op.nsent = 0
        /\ op.resp = None
        /\ ~OpOnWire

\* a delete request without roles and targets, refused
DeleteRequestRefused ==
    /\ op.call = "access_delete_acl_with"
    /\ op.pc = "done"
    /\ DOMAIN AclParamsGiven = {"path", "delete"}
    /\ ~Blank(AclParamsGiven, "path")
    /\ op.result.kind = "InvalidArgument"
    /\ op.nsent = 0

\* ------------------------------------------------------------------ C13
\* no call in progress and none that returned holds the client otherwise
\* than to read it
Quiescent ==
    /\ \A c \in AllCalls : task[c].pc \in {"idle", "done"}
    /\ op.pc \in {"idle", "done"}

\* C13: no request operation changes the client's auth: the value changes
\* only in a step of set_auth, which runs while no call is under way and
\* touches nothing else; no step of raw_json, request_ticket or
\* wait_for_task, whatever the reply (a 401 on an expired ticket, a ticket
\* returned to the caller), writes it, and no login request is sent on the
\* calls' behalf
AuthOnlySetBySetAuth ==
    [][/\ auth' # auth =>
            /\ Quiescent
            /\ UNCHANGED <<now, calls, task, lastResp, wire, op, ctor, pveParams, ret>>
       /\ \A m \in wire' \ wire :
            /\ m.from = OpId => m.request.path = (IF op'.call = "request_ticket"
                                                  THEN TicketPath ELSE RawPath)
            /\ m.from \in AllCalls => m.request.path = TaskStatusPath(task[m.from].upid)]_vars

\* raw_json failed with 401 on the ticket the client holds, after a wait
\* returned: the ticket is still the client's
ExpiredTicketKept ==
    /\ op.pc = "done"
    /\ op.call = "raw_json"
    /\ op.result = ErrApiStatus(401, BodyGarbage)
    /\ op.auth.kind = "Ticket"
    /\ auth = op.auth
    /\ task[1].pc = "done"

\* ------------------------------------------------------------------ C20
\* what wait_for_task returns when run alone, from the call's own arguments,
\* the reply to its own last status query and its own clock readings
AloneResult(c) ==
    LET t == task[c]
        r == Execute(Unwrap(lastResp[c]), "TaskStatus")
    IN  IF IsErr(r) THEN r
        ELSE IF r.value.status = "stopped"
        THEN IF r.value.exitstatus = Some("OK") THEN Ok(r.value)
             ELSE ErrTaskFailed(t.upid, UnwrapOr(r.value.exitstatus, "UNKNOWN"))
        ELSE IF t.timeout # None /\ t.returned - t.started > Unwrap(t.timeout)
        THEN ErrTaskTimeout(t.upid, AsSecs(Unwrap(t.timeout)))
        ELSE Pending

\* the requests of call c that are on the network
RequestsOf(c) == {m \in wire : m.from = c}

\* C20: concurrent calls on one client do not interfere: under every
\* interleaving of two waits and a raw_json call at their await points, a
\* call that returned has the result it would have alone for the replies to
\* its own requests, a waiting call has its own request and no other on the
\* network, and the client's auth is as it was when the calls began
CallsDoNotInterfere ==
    /\ auth \in {AuthTicket(t, Some(c)) : t \in Tickets, c \in Csrfs}
    /\ ctor = BuiltCtor
    /\ \A c \in calls :
          /\ task[c].pc = "done" =>
                /\ lastResp[c] # None
                /\ task[c].result = AloneResult(c)
                /\ task[c].result # Pending
          /\ task[c].pc = "awaiting" =>
                RequestsOf(c) =
                    {[from |-> c,
                      request |-> ApplyAuth(auth, NewRequest("GET", TaskStatusPath(task[c].upid)), "GET").value]}
          /\ task[c].pc # "awaiting" => RequestsOf(c) = {}
    /\ op.pc = "done" => op.result = Execute(Unwrap(op.resp), "Value")
    /\ op.pc = "awaiting" =>
          RequestsOf(OpId) =
              {[from |-> OpId,
                request |-> ApplyAuth(auth, NewRequest("GET", RawPath), "GET").value]}
    /\ op.pc # "awaiting" => RequestsOf(OpId) = {}

\* the first wait returned Ok while the second, which has seen one status
\* already, and a raw_json call each await a reply
ReturnedAmongCallsInFlight ==
    /\ task[1].pc = "done"
    /\ task[1].result.kind = "Ok"
    /\ task[2].pc = "awaiting"
    /\ task[2].status # None
    /\ op.pc = "awaiting"

\* ------------------------------------------------------------------ C21
\* the value a noted write gives key k, None when the write leaves k alone
WrittenBy(entry, k) ==
    CASE entry.op = "insert" -> IF entry.key = k THEN Some(entry.arg) ELSE None
      [] entry.op = "insert_opt" -> IF entry.key = k THEN entry.arg ELSE None
      [] entry.op = "insert_bool" ->
             IF entry.key = k THEN Some(IF entry.arg THEN <<"1">> ELSE <<"0">>) ELSE None
      [] entry.op = "extend" ->
             IF k \in DOMAIN entry.arg THEN Some(entry.arg[k]) ELSE None

\* the value of the most recent write of the log that wrote k
RECURSIVE LastWritten(_, _)
LastWritten(log, k) ==
    IF log = <<>> THEN None
    ELSE IF IsSome(WrittenBy(log[Len(log)], k)) THEN WrittenBy(log[Len(log)], k)
    ELSE LastWritten(SubSeq(log, 1, Len(log) - 1), k)

\* C21: the keys of a PveParams are unique and the last writer wins: after
\* any sequence of insert, insert_opt, insert_bool and extend, get(k) is the
\* value of the most recent write of k, where insert_opt(None) writes
\* nothing, insert_bool writes "1" or "0" and extend(other) writes every
\* entry of other and keeps the keys other lacks
LastWriterWins ==
    \A k \in ParamKeys : Get(pveParams.map, k) = LastWritten(pveParams.log, k)

\* vmid was inserted, then an insert_opt of None and last an extend that
\* has vmid followed: get("vmid") is the value of the extend
OverwrittenByExtend ==
    /\ Len(pveParams.log) = 3
    /\ pveParams.log[1] = [op |-> "insert", key |-> "vmid", arg |-> <<"x">>]
    /\ pveParams.log[2].op = "insert_opt" /\ pveParams.log[2].arg = None
    /\ pveParams.log[3].op = "extend" /\ "vmid" \in DOMAIN pveParams.log[3].arg
    /\ Get(pveParams.map, "vmid") = Some(<<"z">>)
    /\ Get(pveParams.map, "name") = None

\* ------------------------------------------------------------------ C22
\* the value a typed field has when it is present, None when it is absent
Present(f) ==
    CASE f.by = "insert" -> Some(f.value)
      [] f.by = "insert_opt" -> f.value
      [] f.by = "insert_bool" ->
             IF IsSome(f.value) THEN Some(IF Unwrap(f.value) THEN <<"1">> ELSE <<"0">>)
             ELSE None

\* m has every present typed field, no absent one, and every entry of extra,
\* whose value stands where a typed field has the same key
EmitsFieldsThenExtra(fields, extra, m) ==
    /\ DOMAIN m = {fields[i].key : i \in {j \in DOMAIN fields : IsSome(Present(fields[j]))}}
                      \cup DOMAIN extra
    /\ \A k \in DOMAIN extra : m[k] = extra[k]
    /\ \A i \in DOMAIN fields :
          (IsSome(Present(fields[i])) /\ fields[i].key \notin DOMAIN extra) =>
              m[fields[i].key] = Unwrap(Present(fields[i]))

\* C22: to_params of a request builder with an extra map (QemuCreateRequest,
\* VzdumpRequest) emits each present typed field, omits each absent optional
\* one and applies extra last: for a key that is a typed field and in extra
\* the result has the value of extra; numbers are written in decimal and
\* flags as "1" or "0"
ExtraAppliedLast ==
    /\ (ret.fn = "QemuCreateRequest::to_params" /\ IsSome(ret.out)) =>
          /\ EmitsFieldsThenExtra(QemuCreateFields(ret.args[1]), ret.args[1].extra,
                                  Unwrap(ret.out))
          /\ (ret.args[1].vmid = 220 /\ "vmid" \notin DOMAIN ret.args[1].extra) =>
                Unwrap(ret.out).vmid = <<"2", "2", "0">>
          /\ (ret.args[1].onboot = Some(TRUE) /\ "onboot" \notin DOMAIN ret.args[1].extra) =>
                Unwrap(ret.out).onboot = <<"1">>
          /\ ret.args[1].cores = None => "cores" \notin DOMAIN Unwrap(ret.out)
    /\ (ret.fn = "VzdumpRequest::to_params" /\ IsSome(ret.out)) =>
          /\ EmitsFieldsThenExtra(VzdumpFields(ret.args[1]), ret.args[1].extra,
                                  Unwrap(ret.out))
          /\ (ret.args[1].remove = Some(FALSE)) => Unwrap(ret.out).remove = <<"0">>

\* a QemuCreateRequest with name and onboot set both as typed fields and in
\* extra: the result has the values of extra, and the vmid of the request
ExtraOverTypedFields ==
    /\ ret.fn = "QemuCreateRequest::to_params"
    /\ ret.args[1].name = Some(<<"d", "e", "m", "o">>)
    /\ ret.args[1].onboot = Some(TRUE)
    /\ ret.args[1].vmid = 220
    /\ ret.args[1].memory = Some(512)
    /\ ret.out = Some([vmid |-> <<"2", "2", "0">>, name |-> <<"z">>,
                       memory |-> <<"5", "1", "2">>,
                       onboot |-> <<"t", "r", "u", "e">>] @@
                      (IF IsSome(ret.args[1].bios) THEN [bios |-> <<"o", "v", "m", "f">>] ELSE <<>>) @@
                      (IF IsSome(ret.args[1].ostype) THEN [ostype |-> <<"l", "2", "6">>] ELSE <<>>))

\* ------------------------------------------------------------------ C23
\* C23: normalize_api_path is idempotent, and a path that carries the
\* "/api2/json" prefix is returned unchanged
NormalizeIdempotent ==
    (ret.fn = "normalize_api_path" /\ IsSome(ret.out)) =>
        /\ NormalizeApiPath(Unwrap(ret.out)) = Unwrap(ret.out)
        /\ StartsWith(ret.args[1], StrApiPrefix) => Unwrap(ret.out) = ret.args[1]

\* "/api2/json/n" was given and returned as it is
PrefixedPathReturned ==
    /\ ret.fn = "normalize_api_path"
    /\ ret.args[1] = StrApiPrefix \o <<"/", "n">>
    /\ ret.out = Some(ret.args[1])

\* ------------------------------------------------------------------ C24
\* what follows the first Len(StrApiPrefix) characters of s
AfterPrefix(s) == SubSeq(s, Len(StrApiPrefix) + 1, Len(s))

\* C24: for every input path, with or without a leading slash, the result
\* of normalize_api_path carries the prefix "/api2/json" exactly once: it
\* starts with it, and what follows does not start with it again
PrefixExactlyOnce ==
    (ret.fn = "normalize_api_path" /\ IsSome(ret.out)) =>
        /\ StartsWith(Unwrap(ret.out), StrApiPrefix)
        /\ ~StartsWith(AfterPrefix(Unwrap(ret.out)), StrApiPrefix)

\* ------------------------------------------------------------------ C25
\* the host string carries more than a host: a port, a path, a query or a
\* fragment, or credentials, behind a scheme prefix or without one
EmbedsMore(h) ==
    \/ HostWithPort(StripScheme(Trim(h)))
    \/ HostWithPath(StripScheme(Trim(h)))
    \/ Contains(h, "?") \/ Contains(h, "#") \/ Contains(h, "@")

\* C25: build_base_url fails with InvalidBaseUrl for every host string that
\* contains an embedded port, path, query or fragment, or credentials, with
\* or without an http(s):// prefix, and never strips or fixes such input
EmbeddedPartsRejected ==
    (ret.fn = "build_base_url" /\ IsSome(ret.out) /\ EmbedsMore(ret.args[1])) =>
        Unwrap(ret.out).kind = "InvalidBaseUrl"

\* ------------------------------------------------------------------ C26
\* a bare IPv6 literal was given to build_base_url, which returned
BareIpv6Given ==
    ret.fn = "build_base_url" /\ IsSome(ret.out) /\ ret.args[1] \in Ipv6Literals

\* Url::port_or_known_default
PortOrKnownDefault(url) ==
    IF IsSome(url.port) THEN Unwrap(url.port) ELSE DefaultPort(url.scheme)

\* C26 as stated: for a bare IPv6 literal without brackets build_base_url
\* succeeds and the base URL reads scheme://[literal]:port/, the scheme by
\* the TLS flag and the port from the port argument
BareIpv6AsGiven ==
    BareIpv6Given =>
        /\ Unwrap(ret.out).kind = "Ok"
        /\ UrlAsStr(Unwrap(ret.out).value) =
              FormatBase(ret.args[3], <<"[">> \o ret.args[1] \o <<"]">>, ret.args[2])

\* C26: for a bare IPv6 literal without brackets build_base_url succeeds;
\* the host of the base URL is the address in brackets, written in its
\* compressed form, the scheme follows the TLS flag, the path is "/" and the
\* port is the port argument, which the text of the URL names unless it is
\* the one the scheme implies
BareIpv6Bracketed ==
    BareIpv6Given =>
        /\ Unwrap(ret.out).kind = "Ok"
        /\ Unwrap(ret.out).value.host = <<"[">> \o Ipv6Canonical(ret.args[1]) \o <<"]">>
        /\ Unwrap(ret.out).value.scheme = (IF ret.args[3] THEN "https" ELSE "http")
        /\ PortOrKnownDefault(Unwrap(ret.out).value) = ret.args[2]
        /\ Unwrap(ret.out).value.path = <<"/">>
        /\ UrlAsStr(Unwrap(ret.out).value) =
              (IF ret.args[3] THEN StrHttps ELSE StrHttp)
                  \o <<"[">> \o Ipv6Canonical(ret.args[1]) \o <<"]">>
                  \o (IF ret.args[2] = DefaultPort(IF ret.args[3] THEN "https" ELSE "http")
                      THEN <<>> ELSE <<":">> \o ret.args[2])
                  \o <<"/">>

\* "2001:db8::1" with port 8006 and TLS gave https://[2001:db8::1]:8006/
Ipv6BaseUrlBuilt ==
    /\ ret.fn = "build_base_url"
    /\ ret.args = <<<<"2", "0", "0", "1", ":", "d", "b", "8", ":", ":", "1">>, DEFAULT_PORT, TRUE>>
    /\ IsSome(ret.out)
    /\ Unwrap(ret.out).kind = "Ok"
    /\ UrlAsStr(Unwrap(ret.out).value) =
          StrHttps \o <<"[", "2", "0", "0", "1", ":", "d", "b", "8", ":", ":", "1", "]", ":", "8", "0", "0", "6", "/">>

\* ------------------------------------------------------------------ C27
\* the variable is not set, or blank once trimmed
MissingOrBlank(env, name) == env[name] = None \/ Trim(Unwrap(env[name])) = <<>>
\* the trimmed value of a variable that is set
Trimmed(env, name) == Trim(Unwrap(env[name]))
\* the trimmed value of an optional variable, absent when blank
TrimmedOpt(env, name) ==
    IF MissingOrBlank(env, name) THEN None ELSE Some(Trimmed(env, name))

\* the variables the selected method requires
RequiredBy(method) ==
    IF method = StrApiToken THEN {"PVE_API_TOKEN"}
    ELSE IF method = StrApiTokenPartial
    THEN {"PVE_API_TOKEN_USER", "PVE_API_TOKEN_REALM", "PVE_API_TOKEN_ID",
          "PVE_API_TOKEN_SECRET"}
    ELSE {"PVE_USERNAME", "PVE_PASSWORD"}

\* the cases in which from_env is to fail
EnvRefused(env) ==
    \/ MissingOrBlank(env, "PVE_AUTH_METHOD")
    \/ Trimmed(env, "PVE_AUTH_METHOD")
          \notin {StrApiToken, StrApiTokenPartial, StrUsernamePassword}
    \/ \E n \in RequiredBy(Trimmed(env, "PVE_AUTH_METHOD")) : MissingOrBlank(env, n)
    \/ /\ Trimmed(env, "PVE_AUTH_METHOD") = StrApiToken
       /\ ~MatchesTokenShape(Trimmed(env, "PVE_API_TOKEN"))

\* the credentials from_env is to return otherwise
EnvCredentials(env) ==
    IF Trimmed(env, "PVE_AUTH_METHOD") = StrApiToken
    THEN [kind |-> "ApiToken", token |-> Trimmed(env, "PVE_API_TOKEN")]
    ELSE IF Trimmed(env, "PVE_AUTH_METHOD") = StrApiTokenPartial
    THEN [kind |-> "ApiTokenPartial", user |-> Trimmed(env, "PVE_API_TOKEN_USER"),
          realm |-> Trimmed(env, "PVE_API_TOKEN_REALM"),
          token_id |-> Trimmed(env, "PVE_API_TOKEN_ID"),
          secret |-> Trimmed(env, "PVE_API_TOKEN_SECRET")]
    ELSE [kind |-> "Password", username |-> Trimmed(env, "PVE_USERNAME"),
          password |-> Trimmed(env, "PVE_PASSWORD"), otp |-> TrimmedOpt(env, "PVE_OTP"),
          realm |-> TrimmedOpt(env, "PVE_REALM"),
          tfa_challenge |-> TrimmedOpt(env, "PVE_TFA_CHALLENGE")]

\* C27: ClientAuth::from_env returns InvalidArgument when PVE_AUTH_METHOD is
\* missing or none of API_TOKEN, API_TOKEN_PARTIAL, USERNAME_PASSWORD, when a
\* variable the selected method requires is missing or blank after trimming,
\* or when PVE_API_TOKEN has not the token shape; otherwise it returns the
\* credentials of the selected method with trimmed values, blank optional
\* variables absent
FromEnvChecked ==
    (ret.fn = "ClientAuth::from_env" /\ IsSome(ret.out)) =>
        IF EnvRefused(ret.args[1])
        THEN Unwrap(ret.out).kind = "InvalidArgument"
        ELSE Unwrap(ret.out) = Ok(EnvCredentials(ret.args[1]))

\* USERNAME_PASSWORD with a padded password and one-time password and a
\* blank TFA challenge gave Password credentials with the values trimmed
PasswordFromEnv ==
    /\ ret.fn = "ClientAuth::from_env"
    /\ ret.out = Some(Ok([kind |-> "Password", username |-> <<"u">>,
                          password |-> <<"p">>, otp |-> Some(<<"o">>),
                          realm |-> None, tfa_challenge |-> None]))
    /\ ret.args[1].PVE_TFA_CHALLENGE = Some(<<>>)
    /\ ret.args[1].PVE_API_TOKEN = None

\* ------------------------------------------------------------------ C28
\* call c moves from position a to position b in the step
Moves(c, a, b) == task[c].pc = a /\ task'[c].pc = b
\* call c leaves position a in the step
Leaves(c, a) == task[c].pc = a /\ task'[c].pc # a

\* C28: every iteration of the loop of wait_for_task makes one status query
\* and then at most one sleep of poll_interval: a call starts with a query,
\* after a query it gets the reply and then returns or classifies, after a
\* classification it returns (with no sleep) or sleeps for poll_interval and
\* only then queries again, and it has at most one query outstanding, none
\* while it sleeps or once it has returned
OneQueryThenOneSleep ==
    [][\A c \in AllCalls :
          /\ (Leaves(c, "idle") \/ Leaves(c, "done")) => task'[c].pc = "poll"
          /\ Leaves(c, "poll") => task'[c].pc \in {"awaiting", "done"}
          /\ Moves(c, "poll", "awaiting") =>
                RequestsOf(c) = {} /\ Cardinality({m \in wire' : m.from = c}) = 1
          /\ Leaves(c, "awaiting") =>
                /\ task'[c].pc \in {"classify", "done"}
                /\ {m \in wire' : m.from = c} = {}
          /\ Leaves(c, "classify") => task'[c].pc \in {"sleeping", "done"}
          /\ Moves(c, "classify", "sleeping") =>
                task'[c].wake = now + task[c].poll_interval
          /\ Leaves(c, "sleeping") =>
                task'[c].pc = "poll" /\ now >= task[c].wake
          /\ task'[c].pc # "awaiting" => {m \in wire' : m.from = c} = {}
          /\ Cardinality({m \in wire' : m.from = c}) <= 1]_vars

\* a call has its second query outstanding, after the sleep that followed
\* the first, which took time
SecondQueryAfterSleep ==
    /\ task[1].pc = "awaiting"
    /\ task[1].status # None
    /\ task[1].poll_interval > 0
    /\ now >= task[1].started + task[1].poll_interval
    /\ Cardinality(RequestsOf(1)) = 1

\* ------------------------------------------------------------------ C29
\* the deadline of call c had passed when it returned
DeadlinePassed(c) ==
    /\ task[c].timeout # None
    /\ task[c].returned - task[c].started > Unwrap(task[c].timeout)

\* C29: a terminal status takes precedence over the deadline: a wait whose
\* last poll observed "stopped" has ended with success or TaskFailed by the
\* exit status, also when its deadline had passed, and never with
\* TaskTimeout
StoppedBeatsDeadline ==
    \A c \in AllCalls :
        (/\ task[c].pc = "done"
         /\ lastResp[c] # None
         /\ LastStatus(c).kind = "Ok"
         /\ LastStatus(c).value.status = "stopped") =>
            /\ task[c].result.kind # "TaskTimeout"
            /\ task[c].result =
                  (IF LastStatus(c).value.exitstatus = Some("OK")
                   THEN Ok(LastStatus(c).value)
                   ELSE ErrTaskFailed(task[c].upid,
                                      UnwrapOr(LastStatus(c).value.exitstatus, "UNKNOWN")))

\* a wait returned success for a "stopped" it observed after its deadline
SuccessAfterDeadline ==
    /\ task[1].pc = "done"
    /\ task[1].result.kind = "Ok"
    /\ DeadlinePassed(1)

\* ------------------------------------------------------------------ C30
RawCalls ==
    {"qemu_create", "qemu_clone", "storage_allocate_disk", "access_create_user_token"}
\* the explicit arguments of the operation as the body is to show them:
\* ids in decimal, the others as given
ExplicitArgs ==
    [k \in DOMAIN op.args |->
        IF k \in {"vmid", "newid"}
        THEN (IF op.args[k] = 100 THEN <<"1", "0", "0">> ELSE <<"1", "0", "1">>)
        ELSE op.args[k]]

\* C30: in a raw-parameter operation that takes an explicit argument and a
\* PveParams map, the body that is sent has the explicit argument under its
\* name, whatever the caller's map holds there, and the caller's other
\* entries; the caller's map is as it was
ExplicitOverridesMap ==
    (op.call \in RawCalls /\ op.pc # "idle") =>
        /\ pveParams.map = Unwrap(op.params)
        /\ IsSome(op.request) =>
              LET body == Unwrap(op.request).form
              IN  /\ DOMAIN body = DOMAIN ExplicitArgs \cup DOMAIN pveParams.map
                  /\ \A k \in DOMAIN ExplicitArgs : body[k] = ExplicitArgs[k]
                  /\ \A k \in DOMAIN pveParams.map \ DOMAIN ExplicitArgs :
                        body[k] = pveParams.map[k]
                  /\ Unwrap(op.request).method = "POST"
        /\ op.pc = "awaiting" => wire = {[from |-> OpId, request |-> Unwrap(op.request)]}

\* storage_allocate_disk was called with a map that names vmid, filename and
\* size: the body sent has the arguments, the map still its own values
DiskAllocatedWithArguments ==
    /\ op.call = "storage_allocate_disk"
    /\ op.pc = "done"
    /\ op.result.kind = "Ok"
    /\ Unwrap(op.request).form =
          [vmid |-> <<"1", "0", "0">>, filename |-> <<"d">>, size |-> <<"4", "G">>]
    /\ pveParams.map = [vmid |-> <<"7">>, filename |-> <<"f">>, size |-> <<"1", "G">>]

====
